---- MODULE Spec2Model ----
(***************************************************************************)
(* Model of the request execution engine of azd-rest: Client.Execute       *)
(* (internal/client/client.go): request construction, request-body         *)
(* buffering for replay, the retry loop with backoff and context           *)
(* cancellation, and the size-bounded read of the response body.           *)
(*                                                                         *)
(* One call of Execute is modelled.  The call suspends at client.Do, at    *)
(* the backoff select and at the body read; each action is the code that   *)
(* runs from one suspension point to the next.  Byte strings are modelled  *)
(* by their length and a reader by its length and read position, so that   *)
(* "the bytes a request carries" is the range [pos, len) of its reader.    *)
(***************************************************************************)
EXTENDS Integers, Sequences, FiniteSets, TLC

None == "none"

(***************************************************************************)
(* Bounds of the model.                                                    *)
(***************************************************************************)
MaxRetryOpt == 2              \* largest value of RequestOptions.Retry tried
SmallMaxResponseSize == 4     \* an explicit RequestOptions.MaxResponseSize
SmallBodyLen == 3             \* length of a short request body
SmallMaxRedirects == 2        \* an explicit RequestOptions.MaxRedirects
SmallMergedSize == 20         \* a MaxResponseSize three pages' items exceed
SmallPageSize == 31           \* a MaxResponseSize a page with a link fits in
MaxTime == 4                  \* minutes the clock runs for
MaxChainCalls == 2            \* credential-chain calls made at most
LongRetry == 35
MaxLifetime == 4              \* longest token lifetime, in minutes

(***************************************************************************)
(* Program constants.                                                      *)
(***************************************************************************)
DefaultRetries == 3                   \* maxRetries = 3 // Default retries
maxBodySizeForRetry == 10485760       \* 10 * 1024 * 1024
DefaultMaxResponseSize == 104857600   \* 100 * 1024 * 1024
DefaultMaxRedirects == 10             \* maxRedirects = 10 // Default max redirects
maxPages == 1000                      \* maxPages := 1000
tokenExpirySkew == 2                  \* tokenExpirySkew = 2 * time.Minute

Min(a, b) == IF a < b THEN a ELSE b

(***************************************************************************)
(* Inputs.                                                                 *)
(***************************************************************************)
RetryOpts == -1 .. MaxRetryOpt
MaxResponseSizeOpts == {0, SmallMaxResponseSize}

\* Kinds of io.Reader a caller passes as RequestOptions.Body:
\*   bytes   *bytes.Reader   (length known to NewRequest, seekable)
\*   strings *strings.Reader (length known to NewRequest, seekable)
\*   buffer  *bytes.Buffer   (length known to NewRequest, not seekable)
\*   file    *os.File        (length unknown to NewRequest, seekable)
\*   stream  any other reader (length unknown, not seekable)
BodyKinds == {"bytes", "strings", "buffer", "file", "stream"}
KnownLenKinds == {"bytes", "strings", "buffer"}
SeekerKinds == {"bytes", "strings", "file"}
BodyLens == {0, SmallBodyLen, maxBodySizeForRetry, maxBodySizeForRetry + 1}

NoReader == [kind |-> None, len |-> 0, pos |-> 0]
Bodies == {NoReader} \cup [kind : BodyKinds, len : BodyLens, pos : {0}]

Statuses == {200, 302, 400, 499, 500, 599, 600}

ServerBodyLens ==
    {SmallMaxResponseSize - 1, SmallMaxResponseSize, SmallMaxResponseSize + 1,
     DefaultMaxResponseSize - 1, DefaultMaxResponseSize, DefaultMaxResponseSize + 1}

(***************************************************************************)
(* Errors.  An error is its kind and the set of retryable patterns its     *)
(* lower-cased text contains.  client.Do wraps every transport error in a  *)
(* url.Error whose text is  Method "URL": cause , so the text of a         *)
(* transport error also contains whatever the URL contains.                *)
(***************************************************************************)
retryablePatterns ==
    {"timeout", "connection refused", "connection reset", "no such host",
     "network is unreachable", "temporary failure", "i/o timeout",
     "context deadline exceeded"}

\* Transport failures the network can produce for a request.
TransportErrKinds == {"timeout", "refused", "reset", "dns", "unreachable", "tls"}
\* Errors of a done context, as returned by ctx.Err().
CtxErrKinds == {"canceled", "deadline"}

CauseText(kind) ==
    CASE kind = "timeout"       -> {"timeout", "i/o timeout"}
      [] kind = "refused"       -> {"connection refused"}
      [] kind = "reset"         -> {"connection reset"}
      [] kind = "dns"           -> {"no such host"}
      [] kind = "unreachable"   -> {"network is unreachable"}
      [] kind = "deadline"      -> {"context deadline exceeded"}
      [] OTHER                  -> {}

\* Patterns the URL itself may contain (a path such as /timeout).
URLPatternOpts == {{}, {"timeout"}}

NoErr == [kind |-> None, text |-> {}]
UrlError(kind, urlText) == [kind |-> kind, text |-> CauseText(kind) \cup urlText]
CtxError(kind) == [kind |-> kind, text |-> CauseText(kind)]

isRetryableErrorNever(err) == FALSE

isRetryableError(err) ==
    /\ err # NoErr
    /\ \E pattern \in retryablePatterns : pattern \in err.text


(***************************************************************************)
(* Response bodies as handlePagination sees them.  A body is either raw    *)
(* bytes that json.Unmarshal cannot decode into a map, or a JSON object    *)
(* with an optional "value" array, the three next-link keys and one other  *)
(* field ("count":1).  Array items are one-digit numbers, or a whole       *)
(* object when the code wraps the first page.  Lengths are those of the    *)
(* compact encoding json.Marshal produces.                                 *)
(***************************************************************************)
LinkKeys == {"nextLink", "@odata.nextLink", "@odata.next"}
PageURLs == {"a", "b"}
BadURL == "%"                  \* url.Parse: invalid URL escape "%"

NoLinks == [k \in LinkKeys |-> None]
Links(key, url) == [NoLinks EXCEPT ![key] = url]

Number(d) == [kind |-> "number", n |-> d, len |-> 1]

RawBody(n) ==
    [kind |-> "raw", rawLen |-> n, hasValue |-> FALSE, value |-> <<>>,
     links |-> NoLinks, count |-> FALSE]
Object(hasValue, value, links, count) ==
    [kind |-> "object", rawLen |-> 0, hasValue |-> hasValue, value |-> value,
     links |-> links, count |-> count]
NoBody ==
    [kind |-> None, rawLen |-> 0, hasValue |-> FALSE, value |-> <<>>,
     links |-> NoLinks, count |-> FALSE]

\* len("a,b,c") for the items of an array: the lengths of the items (one
\* for each one-byte item, the sum of the others') and the commas
ItemsLen(items) ==
    LET long == {i \in DOMAIN items : items[i].len # 1}
    IN  (Len(items) - Cardinality(long))
          + Cardinality(UNION {{<<i, j>> : j \in 1 .. items[i].len} : i \in long})
          + (IF Len(items) > 0 THEN Len(items) - 1 ELSE 0)

\* The keys of an object.
Keys(body) ==
    (IF body.hasValue THEN {"value"} ELSE {})
      \cup (IF body.count THEN {"count"} ELSE {})
      \cup {k \in LinkKeys : body.links[k] # None}

\* len(body): the braces, each field as "key":value, and the commas
JSONLen(body) ==
    IF body.kind # "object" THEN body.rawLen
    ELSE LET LinkLen(k) == Len(k) + 5 + Len(body.links[k])
             present == {k \in LinkKeys : body.links[k] # None}
         IN  2 + (IF body.hasValue THEN Len("value") + 5 + ItemsLen(body.value) ELSE 0)
               + (IF body.count THEN Len("count") + 4 ELSE 0)
               + Cardinality(UNION {{<<k, n>> : n \in 1 .. LinkLen(k)} : k \in present})
               + (IF Keys(body) # {} THEN Cardinality(Keys(body)) - 1 ELSE 0)

\* A Link header: the URL between < and >, and its rel.
NoLinkHeader == [url |-> "", rel |-> None]
LinkHeader(url, rel) == [url |-> url, rel |-> rel]

\* parseLinkHeader: the URL of the rel="next" entry, "" when there is none
parseLinkHeader(linkHeader) ==
    IF linkHeader.url = "" THEN ""
    ELSE IF linkHeader.rel = "next" THEN linkHeader.url
    ELSE ""

\* extractNextLinkFromBody: the first of nextLink, @odata.nextLink,
\* @odata.next that is a non-empty string, "" when there is none
extractNextLinkFromBody(body) ==
    LET present(k) == body.links[k] # None /\ body.links[k] # ""
    IN  IF body.kind # "object" THEN ""
        ELSE IF present("nextLink") THEN body.links["nextLink"]
        ELSE IF present("@odata.nextLink") THEN body.links["@odata.nextLink"]
        ELSE IF present("@odata.next") THEN body.links["@odata.next"]
        ELSE ""

\* The other order: the Link header first, the body only without it.
NextLinkOfHeaderFirst(body, linkHeader) ==
    LET next == parseLinkHeader(linkHeader)
    IN  IF next # "" THEN next ELSE extractNextLinkFromBody(body)

\* The next link of a page: from its body, else from its Link header.
NextLinkOf(body, linkHeader) ==
    LET next == extractNextLinkFromBody(body)
    IN  IF next # "" THEN next ELSE parseLinkHeader(linkHeader)

\* allResults after the first page: its value array, or the whole object
\* as a single item.
Wrapped(object) == [kind |-> "object", n |-> 0, len |-> JSONLen(object)]
FirstResults(firstData) ==
    IF firstData.hasValue THEN firstData.value ELSE <<Wrapped(firstData)>>

\* What a page read through io.LimitReader(resp.Body, limit) decodes to:
\* the page when all of it was read, otherwise a cut-off text.
ReadPage(page, limit) ==
    LET nRead == Min(JSONLen(page), IF limit > 0 THEN limit ELSE 0)
    IN  IF nRead = JSONLen(page) THEN page ELSE RawBody(nRead)

\* url.Parse(nextURL) succeeds
URLParses(url) == url # BadURL

\* The body handlePagination returns: the combined object when there are
\* results, else the first body as it came.
CombinedFirstPageOnly(results, firstData, currentBody) == currentBody

Combined(results, firstData, currentBody) ==
    IF Len(results) > 0
    THEN Object(TRUE, results, NoLinks, firstData.count)
    ELSE currentBody

(***************************************************************************)
(* The servers.  A page is a body and a Link header.  The "chain" server   *)
(* serves a first page, then page "a", then page "b", which links no       *)
(* further; what each of them holds varies.  The two looping servers       *)
(* serve pages that always carry a next link: "loopSelf" links page "a"    *)
(* to itself, "loopTwo" links "a" and "b" to each other through the Link   *)
(* header.                                                                 *)
(***************************************************************************)
Page(body, linkHeader) ==
    [body |-> body, linkHeader |-> linkHeader, status |-> 200]
NoPage == [Page(NoBody, NoLinkHeader) EXCEPT !.status = 0]
\* The answer of a server that is unavailable.
ErrorPage == [Page(RawBody(3), NoLinkHeader) EXCEPT !.status = 503]

ChainServers == {"chain"}
LoopServers == {"loopSelf", "loopTwo"}

FirstLinkChoices ==
    {NoLinks, Links("nextLink", ""), Links("nextLink", BadURL)}
      \cup {Links(k, "a") : k \in LinkKeys}

FirstPagesOf(srv) ==
    CASE srv = "loopSelf" ->
           {Page(Object(TRUE, <<Number(2), Number(1)>>, Links("nextLink", "a"), FALSE),
                 NoLinkHeader)}
      [] srv = "loopTwo" ->
           {Page(Object(TRUE, <<>>, NoLinks, TRUE), LinkHeader("a", "next"))}
      [] OTHER ->
           {Page(RawBody(3), NoLinkHeader)}
             \cup {Page(Object(FALSE, <<>>, l, TRUE), NoLinkHeader) :
                     l \in {NoLinks, Links("nextLink", "a")}}
             \cup {Page(Object(TRUE, v, l, FALSE), NoLinkHeader) :
                     v \in {<<>>, <<Number(2), Number(1)>>}, l \in FirstLinkChoices}
             \cup {Page(Object(TRUE, <<Number(2), Number(1)>>, Links("nextLink", "a"), TRUE),
                        NoLinkHeader)}
             \cup {Page(Object(TRUE, <<Number(2), Number(1)>>, NoLinks, FALSE),
                        LinkHeader("a", rel)) : rel \in {"next", "prev"}}
             \cup {Page(Object(TRUE, <<Number(2), Number(1)>>,
                               Links("nextLink", "a"), FALSE),
                        LinkHeader("b", "next")),
                   Page(Object(TRUE, <<Number(2), Number(1)>>,
                               [NoLinks EXCEPT !["nextLink"] = "",
                                               !["@odata.nextLink"] = "a",
                                               !["@odata.next"] = "b"], FALSE),
                        LinkHeader("b", "next"))}

PagesAt(srv, url) ==
    CASE srv = "loopSelf" ->
           {Page(Object(TRUE, <<Number(4)>>, Links("nextLink", "a"), FALSE),
                 NoLinkHeader)}
      [] srv = "loopTwo" ->
           {Page(Object(TRUE, <<Number(4)>>, NoLinks, FALSE),
                 LinkHeader(IF url = "a" THEN "b" ELSE "a", "next"))}
      [] url = "a" ->
           {Page(RawBody(3), NoLinkHeader), ErrorPage,
            Page(Object(FALSE, <<>>, Links("nextLink", "b"), TRUE), NoLinkHeader),
            Page(Object(TRUE, <<>>, NoLinks, FALSE), NoLinkHeader),
            Page(Object(TRUE, <<Number(4), Number(3)>>, NoLinks, FALSE),
                 LinkHeader("b", "next"))}
             \cup {Page(Object(TRUE, <<Number(4), Number(3)>>, l, FALSE), NoLinkHeader) :
                     l \in {NoLinks, Links("nextLink", "b"),
                            Links("@odata.nextLink", "b"), Links("nextLink", BadURL)}}
      [] OTHER ->
           {Page(RawBody(3), NoLinkHeader), ErrorPage,
            Page(Object(TRUE, <<>>, NoLinks, FALSE), NoLinkHeader),
            Page(Object(TRUE, <<Number(5)>>, NoLinks, FALSE), NoLinkHeader)}

(***************************************************************************)
(* Text.  Where the code looks inside a string (a header name, a header    *)
(* value, a URL scheme, a Content-Type) the string is a sequence of        *)
(* one-character strings.                                                  *)
(***************************************************************************)
Lowers ==
    <<"a", "b", "c", "d", "e", "f", "g", "h", "i", "j", "k", "l", "m", "n",
      "o", "p", "q", "r", "s", "t", "u", "v", "w", "x", "y", "z">>
Uppers ==
    <<"A", "B", "C", "D", "E", "F", "G", "H", "I", "J", "K", "L", "M", "N",
      "O", "P", "Q", "R", "S", "T", "U", "V", "W", "X", "Y", "Z">>

\* strings.ToLower, strings.ToUpper on ASCII text
ToLowerChar(c) ==
    IF \E i \in DOMAIN Uppers : Uppers[i] = c
    THEN Lowers[CHOOSE i \in DOMAIN Uppers : Uppers[i] = c]
    ELSE c
ToUpperChar(c) ==
    IF \E i \in DOMAIN Lowers : Lowers[i] = c
    THEN Uppers[CHOOSE i \in DOMAIN Lowers : Lowers[i] = c]
    ELSE c
ToLower(s) == [i \in DOMAIN s |-> ToLowerChar(s[i])]

\* strings.EqualFold on ASCII text
EqualFold(s, t) == ToLower(s) = ToLower(t)

\* strings.HasPrefix, strings.TrimPrefix, strings.Contains
HasPrefix(s, prefix) ==
    Len(s) >= Len(prefix) /\ SubSeq(s, 1, Len(prefix)) = prefix
TrimPrefix(s, prefix) ==
    IF HasPrefix(s, prefix) THEN SubSeq(s, Len(prefix) + 1, Len(s)) ELSE s
Contains(s, substr) ==
    \E i \in 1 .. Len(s) - Len(substr) + 1 :
        SubSeq(s, i, i + Len(substr) - 1) = substr

\* textproto.CanonicalMIMEHeaderKey: the first letter and every letter after
\* a hyphen in upper case, the others in lower case
CanonicalMIMEHeaderKey(key) ==
    [i \in DOMAIN key |->
        IF i = 1 \/ key[i - 1] = "-" THEN ToUpperChar(key[i])
        ELSE ToLowerChar(key[i])]

AuthorizationKey ==
    <<"A", "u", "t", "h", "o", "r", "i", "z", "a", "t", "i", "o", "n">>
authorizationLower ==
    <<"a", "u", "t", "h", "o", "r", "i", "z", "a", "t", "i", "o", "n">>
UserAgentKey == <<"U", "s", "e", "r", "-", "A", "g", "e", "n", "t">>
ContentTypeKey ==
    <<"C", "o", "n", "t", "e", "n", "t", "-", "T", "y", "p", "e">>
XCustomKey == <<"X", "-", "C", "u", "s", "t", "o", "m">>
BearerPrefix == <<"B", "e", "a", "r", "e", "r", " ">>
bearerLower == <<"b", "e", "a", "r", "e", "r", " ">>
redactedMarker ==
    <<"*", "*", "*", "R", "E", "D", "A", "C", "T", "E", "D", "*", "*", "*">>
ellipsis == <<".", ".", ".">>
applicationJSON ==
    <<"a", "p", "p", "l", "i", "c", "a", "t", "i", "o", "n", "/", "j", "s",
      "o", "n">>
httpPrefix == <<"h", "t", "t", "p", ":", "/", "/">>
userAgent == <<"a", "z", "d", "-", "r", "e", "s", "t">>

\* sensitiveHeaders
sensitiveHeaders ==
    {<<"x", "-", "a", "p", "i", "-", "k", "e", "y">>,
     <<"x", "-", "a", "u", "t", "h", "-", "t", "o", "k", "e", "n">>,
     <<"c", "o", "o", "k", "i", "e">>,
     <<"s", "e", "t", "-", "c", "o", "o", "k", "i", "e">>,
     <<"x", "-", "c", "s", "r", "f", "-", "t", "o", "k", "e", "n">>}
AuthorizationUpper ==
    <<"A", "U", "T", "H", "O", "R", "I", "Z", "A", "T", "I", "O", "N">>
CookieKey == <<"C", "o", "o", "k", "i", "e">>
BEARERUpper == <<"B", "E", "A", "R", "E", "R", " ">>
BasicPrefix == <<"B", "a", "s", "i", "c", " ">>
jsonWithCharset ==
    <<"a", "p", "p", "l", "i", "c", "a", "t", "i", "o", "n", "/", "j", "s",
      "o", "n", ";", " ", "c", "h", "a", "r", "s", "e", "t", "=", "u", "t",
      "f", "-", "8">>
textPlain == <<"t", "e", "x", "t", "/", "p", "l", "a", "i", "n">>
schemeSeparator == <<":", "/", "/">>

(***************************************************************************)
(* RedactSensitiveHeader and Formatter.Format (internal/client/            *)
(* formatter.go).  A header is a key and a value; http.Header and the map  *)
(* RequestOptions.Headers are sets of headers.                             *)
(***************************************************************************)
Header(key, value) == [key |-> key, value |-> value]

RedactSensitiveHeader(key, value) ==
    LET keyLower == ToLower(key)
        \* s[:6] + "..." + s[len(s)-6:]
        Ends(s)  == SubSeq(s, 1, 6) \o ellipsis \o SubSeq(s, Len(s) - 5, Len(s))
    IN  IF keyLower = authorizationLower
        THEN IF HasPrefix(ToLower(value), bearerLower)
             THEN LET token == TrimPrefix(TrimPrefix(value, BearerPrefix),
                                          bearerLower)
                  IN  IF Len(token) > 12 THEN BearerPrefix \o Ends(token)
                      ELSE BearerPrefix \o redactedMarker
             ELSE redactedMarker
        ELSE IF keyLower \in sensitiveHeaders
        THEN IF Len(value) > 12 THEN Ends(value) ELSE redactedMarker
        ELSE value

\* NewFormatter(verbose, format)
NewFormatter(verbose, format) ==
    [verbose |-> verbose, format |-> IF format # "" THEN format ELSE "auto"]
NoFormatter == [verbose |-> FALSE, format |-> None]

\* http.Header.Get(key): the first value of the key, "" when there is none
Get(headers, key) ==
    IF \E h \in headers : h.key = key
    THEN (CHOOSE h \in headers : h.key = key).value
    ELSE <<>>

\* formatJSON(data): json.Unmarshal into an interface{}, then
\* json.MarshalIndent of the value; the text is the indented encoding of
\* the data, never the data themselves.
formatJSONNeverFails(data) ==
    [err |-> None, text |-> [form |-> "indented", data |-> data]]

formatJSON(data) ==
    IF data.kind = "object"
    THEN [err |-> None, text |-> [form |-> "indented", data |-> data]]
    ELSE [err |-> "invalid character", text |-> [form |-> None, data |-> NoBody]]

\* output.Write(body)
Written(body) == [form |-> "raw", data |-> body]

\* The client.Response Execute returns, and what Format returns for it: the
\* "<" lines of verbose mode (one for each header value, redacted), the
\* body as it was written to the output, and the error.
Response(headers, body) == [Headers |-> headers, Body |-> body]
NoOutput == [lines |-> {}, body |-> [form |-> None, data |-> NoBody], err |-> "none yet"]

Format(f, response) ==
    LET contentType == Get(response.Headers, ContentTypeKey)
        format == IF f.format = "auto"
                  THEN IF Contains(contentType, applicationJSON) THEN "json"
                       ELSE "raw"
                  ELSE f.format
        json   == formatJSON(response.Body)
    IN  [lines |-> IF f.verbose
                   THEN {Header(h.key, RedactSensitiveHeader(h.key, h.value)) :
                           h \in response.Headers}
                   ELSE {},
         body  |-> IF format = "json" /\ json.err = None THEN json.text
                   ELSE Written(response.Body),
         err   |-> None]

\* An Authorization header: none, or "Bearer " + token for the token the
\* n-th GetToken call returned (asked of that provider for that scope).
NoAuth == [provider |-> None, scope |-> "", call |-> 0]
Bearer(provider, scope, n) == [provider |-> provider, scope |-> scope, call |-> n]

\* !opts.SkipAuth && opts.Scope != "" && provider != nil
NeedsToken(skipAuth, scope, provider) ==
    ~skipAuth /\ scope # "" /\ provider # None

\* A page request: http.NewRequestWithContext(ctx, method, url, nil) with
\* the headers set on it.
NoPageRequest ==
    [method |-> None, url |-> "", headers |-> {}, body |-> None,
     authorization |-> NoAuth,
     target |-> [scheme |-> <<>>, host |-> <<>>, port |-> <<>>,
                 path |-> <<>>, query |-> <<>>]]

TokenProviders == {None, "mock"}

(***************************************************************************)
(* AzureTokenProvider.  Scopes are strings given as sequences of           *)
(* characters; times are minutes, 0 being the zero time.Time; a token      *)
(* string is the number of the credential-chain call that issued it, 0     *)
(* being the empty string.                                                 *)
(***************************************************************************)
RECURSIVE TrimLeft(_)
TrimLeft(s) == IF s # <<>> /\ Head(s) = " " THEN TrimLeft(Tail(s)) ELSE s

RECURSIVE TrimRight(_)
TrimRight(s) ==
    IF s # <<>> /\ s[Len(s)] = " " THEN TrimRight(SubSeq(s, 1, Len(s) - 1)) ELSE s

\* strings.TrimSpace
TrimSpace(s) == TrimRight(TrimLeft(s))

ScopeInputs == {<<"S">>, <<" ", "S", " ">>, <<"T">>, <<" ">>}
Scopes == {TrimSpace(s) : s \in ScopeInputs} \ {<<>>}

NoToken == [token |-> 0, expiresOn |-> 0]
AccessToken(token, expiresOn) == [token |-> token, expiresOn |-> expiresOn]

\* token.ExpiresOn.After(p.now().Add(tokenExpirySkew))
FreshTwiceTheSkew(expiresOn, t) == expiresOn > t + 2 * tokenExpirySkew
FreshAtTheSkew(expiresOn, t) == expiresOn >= t + tokenExpirySkew

Fresh(expiresOn, t) == expiresOn > t + tokenExpirySkew

\* getCached: the cached token and true, or the empty token and false
getCached(entries, scope, t) ==
    LET token == entries[scope]
    IN  IF token.token = 0 \/ token.expiresOn = 0 THEN [token |-> 0, ok |-> FALSE]
        ELSE IF Fresh(token.expiresOn, t) THEN [token |-> token.token, ok |-> TRUE]
        ELSE [token |-> 0, ok |-> FALSE]

\* setCached: empty tokens and tokens without an expiry are not stored
setCached(entries, scope, token) ==
    IF token.token = 0 \/ token.expiresOn = 0 THEN entries
    ELSE [entries EXCEPT ![scope] = token]

\* classifyAuthError.  A credential-chain error is known by which of the
\* words looked for its lower-cased text contains; the error returned
\* starts with "authentication failed", goes on as its bucket says, and
\* wraps the chain's error.
PermissionWords == {"insufficient", "unauthorized", "forbidden", "permission"}
LoginWords ==
    {"credential unavailable", "login", "no accounts",
     "authentication required", "configure"}
ChainErrors == {{}, {"forbidden"}, {"login"}, {"permission", "configure"}}

classifyAuthErrorUnwrapped(text) ==
    [msg |-> "authentication failed", detail |-> "for scope", wraps |-> {}]

classifyAuthError(text) ==
    [msg    |-> "authentication failed",
     detail |-> IF text \cap PermissionWords # {}
                THEN "insufficient permissions for scope"
                ELSE IF text \cap LoginWords # {}
                THEN "not logged in or credential unavailable"
                ELSE "for scope",
     wraps  |-> {text}]

\* Where a caller's GetToken call is, and what a call returned.
Idle == [pc |-> "idle", scope |-> <<>>, at |-> 0, n |-> 0, token |-> NoToken]

\* p.mu, a sync.RWMutex: who holds it for reading, who for writing.
Unlocked == [readers |-> {}, writer |-> None]
NoCall ==
    [caller |-> None, scope |-> <<>>, at |-> 0, token |-> 0, expiresOn |-> 0,
     chain |-> FALSE, err |-> None, detail |-> None, wraps |-> {}]
Returned(caller, scope, at, token, expiresOn, chain, err) ==
    [caller |-> caller, scope |-> scope, at |-> at, token |-> token,
     expiresOn |-> expiresOn, chain |-> chain, err |-> err, detail |-> None,
     wraps |-> {}]

(***************************************************************************)
(* The azd rest command (internal/cmd/root.go) and scope detection         *)
(* (internal/auth/scope.go).  A URL is its scheme, the labels of its host  *)
(* (in lower case, as strings.ToLower leaves them), its port, and its path  *)
(* and query as they are written; a scope is a string.                     *)
(***************************************************************************)
URL(scheme, host, path) ==
    [scheme |-> scheme, host |-> host, port |-> <<>>, path |-> path,
     query |-> <<>>]

\* The same URL with ":" port after the host and "?" query after the path.
WithPortAndQuery(url, port, query) ==
    [url EXCEPT !.port = port, !.query = query]

\* The text of the URL as far as its host.
URLString(url) == url.scheme \o schemeSeparator \o <<"h">>

\* url.Parse(urlString) succeeds: every "%" of the path starts an escape
\* of two hexadecimal digits
HexDigits ==
    {"0", "1", "2", "3", "4", "5", "6", "7", "8", "9",
     "a", "b", "c", "d", "e", "f", "A", "B", "C", "D", "E", "F"}

URLStringParses(url) ==
    \A i \in DOMAIN url.path :
       url.path[i] = BadURL
         => /\ i + 2 <= Len(url.path)
            /\ url.path[i + 1] \in HexDigits
            /\ url.path[i + 2] \in HexDigits

\* parsedURL.Hostname(): the host without the port
Hostname(url) == url.host

\* parsedURL.RequestURI(): the path followed by "?" and the query
PathAndQuery(url) ==
    IF url.query = <<>> THEN url.path ELSE url.path \o <<"?">> \o url.query

\* parsedURL.EscapedPath(): the path as written, without the query
EscapedPath(url) == url.path

\* The host has more labels than the suffix and ends in its last label.
HasHostSuffixLastLabel(host, suffix) ==
    /\ Len(host) > Len(suffix)
    /\ host[Len(host)] = suffix[Len(suffix)]

\* strings.HasSuffix(host, "." + suffix), both as sequences of labels
HasHostSuffix(host, suffix) ==
    /\ Len(host) > Len(suffix)
    /\ SubSeq(host, Len(host) - Len(suffix) + 1, Len(host)) = suffix

exactMatches ==
    {[host |-> <<"management", "azure", "com">>,
      scope |-> "https://management.azure.com/.default"],
     [host |-> <<"graph", "microsoft", "com">>,
      scope |-> "https://graph.microsoft.com/.default"],
     [host |-> <<"api", "loganalytics", "io">>,
      scope |-> "https://api.loganalytics.io/.default"],
     [host |-> <<"dev", "azure", "com">>,
      scope |-> "499b84ac-1321-427f-aa17-267ca6975798/.default"]}

suffixMatches ==
    {[suffix |-> <<"vault", "azure", "net">>,
      scope |-> "https://vault.azure.net/.default"],
     [suffix |-> <<"blob", "core", "windows", "net">>,
      scope |-> "https://storage.azure.com/.default"],
     [suffix |-> <<"queue", "core", "windows", "net">>,
      scope |-> "https://storage.azure.com/.default"],
     [suffix |-> <<"table", "core", "windows", "net">>,
      scope |-> "https://storage.azure.com/.default"],
     [suffix |-> <<"file", "core", "windows", "net">>,
      scope |-> "https://storage.azure.com/.default"],
     [suffix |-> <<"dfs", "core", "windows", "net">>,
      scope |-> "https://storage.azure.com/.default"],
     [suffix |-> <<"azurecr", "io">>,
      scope |-> "https://containerregistry.azure.net/.default"],
     [suffix |-> <<"documents", "azure", "com">>,
      scope |-> "https://cosmos.azure.com/.default"],
     [suffix |-> <<"azconfig", "io">>,
      scope |-> "https://azconfig.io/.default"],
     [suffix |-> <<"batch", "azure", "com">>,
      scope |-> "https://batch.core.windows.net/.default"],
     [suffix |-> <<"postgres", "database", "azure", "com">>,
      scope |-> "https://ossrdbms-aad.database.windows.net/.default"],
     [suffix |-> <<"mysql", "database", "azure", "com">>,
      scope |-> "https://ossrdbms-aad.database.windows.net/.default"],
     [suffix |-> <<"mariadb", "database", "azure", "com">>,
      scope |-> "https://ossrdbms-aad.database.windows.net/.default"],
     [suffix |-> <<"database", "windows", "net">>,
      scope |-> "https://database.windows.net/.default"],
     [suffix |-> <<"dev", "azuresynapse", "net">>,
      scope |-> "https://dev.azuresynapse.net/.default"],
     [suffix |-> <<"azuredatalakestore", "net">>,
      scope |-> "https://datalake.azure.net/.default"],
     [suffix |-> <<"media", "azure", "net">>,
      scope |-> "https://rest.media.azure.net/.default"]}

slashQueue == <<"/", "q", "u", "e", "u", "e">>
slashQueues == <<"/", "q", "u", "e", "u", "e", "s">>

\* DetectScope(urlString): the scope and the error.  The suffix table is a
\* map and the loop over it returns at the first entry that matches, in
\* whatever order range yields the entries: every matching entry is a
\* possible result.
DetectScopeResults(url) ==
    LET host  == Hostname(url)
        path  == EscapedPath(url)
        Found(scope) == [scope |-> scope, err |-> None]
    IN  IF ~URLStringParses(url)
        THEN {[scope |-> "", err |-> "failed to parse URL"]}
        ELSE IF host = <<>> THEN {Found("")}
        ELSE IF \E m \in exactMatches : m.host = host
        THEN {Found(m.scope) : m \in {e \in exactMatches : e.host = host}}
        ELSE IF HasHostSuffix(host, <<"visualstudio", "com">>)
        THEN {Found("499b84ac-1321-427f-aa17-267ca6975798/.default")}
        ELSE IF HasHostSuffix(host, <<"kusto", "windows", "net">>)
        THEN {Found("https://<host>/.default")}
        ELSE IF HasHostSuffix(host, <<"servicebus", "windows", "net">>)
        THEN IF Contains(path, slashQueue) \/ Contains(path, slashQueues)
             THEN {Found("https://servicebus.azure.net/.default")}
             ELSE {Found("https://eventhubs.azure.net/.default")}
        ELSE IF \E m \in suffixMatches : HasHostSuffix(host, m.suffix)
        THEN {Found(m.scope) :
                m \in {e \in suffixMatches : HasHostSuffix(host, e.suffix)}}
        ELSE {Found("")}

\* The result of a call, where the callers of DetectScope use it.
DetectScope(url) == CHOOSE r \in DetectScopeResults(url) : TRUE

\* ShouldSkipAuth(url, headers, skipAuth)
ShouldSkipAuthExactKey(url, headers, skipAuth) ==
    \/ skipAuth
    \/ \E h \in headers : h.key = AuthorizationKey
    \/ HasPrefix(ToLower(URLString(url)), httpPrefix)

ShouldSkipAuth(url, headers, skipAuth) ==
    \/ skipAuth
    \/ \E h \in headers : EqualFold(h.key, authorizationLower)
    \/ HasPrefix(ToLower(URLString(url)), httpPrefix)

\* strings.SplitN(header, ":", 2)
SplitN2(header) ==
    IF \E i \in DOMAIN header : header[i] = ":"
    THEN LET i == CHOOSE j \in DOMAIN header :
                    /\ header[j] = ":"
                    /\ \A k \in 1 .. j - 1 : header[k] # ":"
         IN  <<SubSeq(header, 1, i - 1), SubSeq(header, i + 1, Len(header))>>
    ELSE <<header>>

\* The map opts.Headers after the --header values have been parsed, in
\* order: opts.Headers[key] = value
RECURSIVE ParseHeaders(_)
ParseHeaders(headers) ==
    IF headers = <<>> THEN {}
    ELSE LET before == ParseHeaders(SubSeq(headers, 1, Len(headers) - 1))
             parts  == SplitN2(headers[Len(headers)])
             key    == TrimSpace(parts[1])
         IN  {h \in before : h.key # key}
               \cup {Header(key, TrimSpace(parts[2]))}

\* The token provider auth.NewAzureTokenProvider() returns.
AzureProvider == "azure"

\* The global flags of the command, and its URL argument.
NoFlags ==
    [url |-> URL(<<>>, <<>>, <<>>), scope |-> "", noAuth |-> FALSE,
     headers |-> <<>>, verbose |-> FALSE, paginate |-> FALSE, retry |-> 0,
     outputFormat |-> ""]

\* buildRequestOptions(method, url): the options and the error
buildRequestOptions(method, f) ==
    LET badHeader == \E i \in DOMAIN f.headers : Len(SplitN2(f.headers[i])) # 2
        headers   == ParseHeaders(f.headers)
        detects   == f.scope = "" /\ ~f.noAuth
        detected  == DetectScope(f.url)
        scope     == IF detects THEN detected.scope ELSE f.scope
        skipAuth  == ShouldSkipAuth(f.url, headers, f.noAuth)
        built     == [Method |-> method, Headers |-> headers, Scope |-> scope,
                      SkipAuth |-> skipAuth, Verbose |-> f.verbose,
                      FollowRedirects |-> FALSE, MaxRedirects |-> 0,
                      Retry |-> f.retry,
                      MaxResponseSize |-> DefaultMaxResponseSize,
                      Paginate |-> f.paginate, Body |-> NoReader,
                      URLText |-> {}, URL |-> f.url,
                      TokenProvider |-> IF skipAuth THEN None ELSE AzureProvider]
    IN  IF badHeader THEN [opts |-> built, err |-> "invalid header format"]
        ELSE IF detects /\ detected.err # None
        THEN [opts |-> built, err |-> "failed to detect scope"]
        ELSE [opts |-> built, err |-> None]

(***************************************************************************)
(* The URL of a page request.  The next links "a" and "b" of the servers   *)
(* are the texts page/a?skip=2, a relative reference, and                  *)
(* https://next.example.com/b, an absolute URL.                            *)
(***************************************************************************)
\* The URL of the request, opts.URL, where no command line gives one.
RequestURL ==
    WithPortAndQuery(URL(<<"h", "t", "t", "p", "s">>, <<"api", "example", "com">>,
                         <<"/", "v", "1", "/", "i", "t", "e", "m", "s">>),
                     <<>>, <<"t", "o", "p", "=", "1">>)

\* url.Parse(nextURL)
Reference(link) ==
    IF link = "a"
    THEN WithPortAndQuery(URL(<<>>, <<>>, <<"p", "a", "g", "e", "/", "a">>), <<>>, <<"s", "k", "i", "p", "=", "2">>)
    ELSE URL(<<"h", "t", "t", "p", "s">>, <<"next", "example", "com">>, <<"/", "b">>)

\* strings.LastIndex(path, "/"), 0 when there is none
LastSlash(path) ==
    IF \E i \in DOMAIN path : path[i] = "/"
    THEN CHOOSE i \in DOMAIN path :
           /\ path[i] = "/"
           /\ \A j \in i + 1 .. Len(path) : path[j] # "/"
    ELSE 0

\* resolvePath(base, ref), for paths without "." and ".." segments
resolvePath(base, ref) ==
    IF ref = <<>> THEN base
    ELSE IF ref[1] # "/" THEN SubSeq(base, 1, LastSlash(base)) \o ref
    ELSE ref

\* base.ResolveReference(ref)
ResolveReference(base, ref) ==
    IF ref.scheme # <<>> THEN ref
    ELSE IF ref.host # <<>> THEN [ref EXCEPT !.scheme = base.scheme]
    ELSE [base EXCEPT
            !.path = resolvePath(base.path, ref.path),
            !.query = IF ref.path = <<>> /\ ref.query = <<>> THEN base.query
                      ELSE ref.query]

(***************************************************************************)
(* The MCP server (internal/cmd/mcp.go): the guards of a tool call.  An IP *)
(* address is its groups (four of 8 bits, or eight of 16 bits); a host     *)
(* that is an IP literal is looked up in a table of the literals used      *)
(* here; what net.LookupHost answers for a name is given with the call.    *)
(***************************************************************************)
\* limiter = azdextutil.NewRateLimiter(10, 1.0): the size of the bucket
limiterBurst == 10

IPv4(a, b, c, d) == [bits |-> 8, groups |-> <<a, b, c, d>>]
IPv6(groups) == [bits |-> 16, groups |-> groups]
NoIP == [bits |-> 0, groups |-> <<>>]
CIDR(ip, ones) == [ip |-> ip, ones |-> ones]

blockedHeaders ==
    {authorizationLower, <<"h", "o", "s", "t">>, ToLower(CookieKey),
     <<"p", "r", "o", "x", "y", "-", "a", "u", "t", "h", "o", "r", "i", "z", "a", "t", "i", "o", "n">>}

blockedHosts ==
    {<<"169", "254", "169", "254">>, <<"fd00:ec2::254">>,
     <<"metadata", "google", "internal">>, <<"100", "100", "100", "200">>}

blockedCIDRs ==
    {CIDR(IPv4(0, 0, 0, 0), 8),
     CIDR(IPv4(127, 0, 0, 0), 8),
     CIDR(IPv6(<<0, 0, 0, 0, 0, 0, 0, 0>>), 128),
     CIDR(IPv6(<<0, 0, 0, 0, 0, 0, 0, 1>>), 128),
     CIDR(IPv4(169, 254, 0, 0), 16),
     CIDR(IPv6(<<65152, 0, 0, 0, 0, 0, 0, 0>>), 10),
     CIDR(IPv4(10, 0, 0, 0), 8),
     CIDR(IPv4(172, 16, 0, 0), 12),
     CIDR(IPv4(192, 168, 0, 0), 16)}

\* cidr.Contains(ip): the first ones bits of ip are those of the network
IPNetContains(cidr, ip) ==
    LET w    == ip.bits
        full == cidr.ones \div w
        rest == cidr.ones % w
    IN  /\ ip.bits = cidr.ip.bits
        /\ \A i \in 1 .. full : ip.groups[i] = cidr.ip.groups[i]
        /\ rest > 0
             => ip.groups[full + 1] \div (2 ^ (w - rest))
                  = cidr.ip.groups[full + 1] \div (2 ^ (w - rest))

\* isBlockedIP(ip)
isBlockedIP(ip) == \E cidr \in blockedCIDRs : IPNetContains(cidr, ip)

\* net.ParseIP(host), for the literals used here
IPLiterals ==
    {[host |-> <<"127", "0", "0", "1">>, ip |-> IPv4(127, 0, 0, 1)],
     [host |-> <<"169", "254", "169", "254">>, ip |-> IPv4(169, 254, 169, 254)],
     [host |-> <<"169", "254", "1", "1">>, ip |-> IPv4(169, 254, 1, 1)],
     [host |-> <<"10", "0", "0", "5">>, ip |-> IPv4(10, 0, 0, 5)],
     [host |-> <<"172", "31", "255", "255">>, ip |-> IPv4(172, 31, 255, 255)],
     [host |-> <<"172", "32", "0", "1">>, ip |-> IPv4(172, 32, 0, 1)],
     [host |-> <<"192", "168", "1", "1">>, ip |-> IPv4(192, 168, 1, 1)],
     [host |-> <<"::1">>, ip |-> IPv6(<<0, 0, 0, 0, 0, 0, 0, 1>>)],
     [host |-> <<"fe80::1">>, ip |-> IPv6(<<65152, 0, 0, 0, 0, 0, 0, 1>>)]}

ParseIP(host) ==
    IF \E l \in IPLiterals : l.host = host
    THEN (CHOOSE l \in IPLiterals : l.host = host).ip
    ELSE NoIP

\* What net.LookupHost returns: the addresses, or an error.
Lookup(addrs) == [err |-> FALSE, addrs |-> addrs]
LookupFails == [err |-> TRUE, addrs |-> {}]

\* The host-name list alone, with no address test.
isBlockedURLHostsOnly(url, lookup) ==
    \/ ~URLStringParses(url)
    \/ Hostname(url) \in blockedHosts

\* isBlockedURL(rawURL), where LookupHost answers lookup
isBlockedURL(url, lookup) ==
    LET host == Hostname(url)
    IN  IF ~URLStringParses(url) THEN TRUE
        ELSE IF host \in blockedHosts THEN TRUE
        ELSE IF ParseIP(host) # NoIP THEN isBlockedIP(ParseIP(host))
        ELSE IF lookup.err THEN TRUE
        ELSE \E ip \in lookup.addrs : isBlockedIP(ip)

\* A scope override: "" or the text of a URL.
NoScope == URL(<<>>, <<>>, <<>>)

\* validateScopeURLMatch(scope, rawURL): the error, or None
validateScopeURLMatch(scope, url) ==
    LET scopeHost == Hostname(scope)
        reqHost   == Hostname(url)
    IN  IF ~URLStringParses(scope) THEN "invalid scope URL"
        ELSE IF ~URLStringParses(url) THEN "invalid request URL"
        ELSE IF scopeHost = <<>> \/ reqHost = <<>>
        THEN "scope and URL must have valid hosts"
        ELSE IF Len(scopeHost) = 1 /\ ParseIP(scopeHost) = NoIP
        THEN "scope host must have at least two labels"
        ELSE IF reqHost # scopeHost /\ ~HasHostSuffix(reqHost, scopeHost)
        THEN "scope host does not match request URL host"
        ELSE None

\* parseHeaders(request): the error, or None
parseHeaders(headers) ==
    IF \E h \in headers : ToLower(h.key) \in blockedHeaders
    THEN "header is not allowed"
    ELSE None

\* The arguments of a tool call: the URL with what its host resolves to,
\* the scope override and the custom headers.
Args(url, lookup, scope, headers) ==
    [url |-> url, lookup |-> lookup, scope |-> scope, headers |-> headers]
NoArgs == Args(NoScope, LookupFails, NoScope, {})

\* A tool call: where it is, the tokens the bucket held when it came in,
\* whether executeMCPRequest was called, the provider it got and whether
\* it called NewAzureTokenProvider for it, the HTTP requests and GetToken
\* calls its Execute made, and its error.
NoTool ==
    [pc |-> "idle", args |-> NoArgs, bucket |-> 0, entered |-> FALSE,
     provider |-> 0, tried |-> FALSE, requests |-> 0, tokens |-> 0,
     err |-> None]

\* executeMCPRequest up to getOrCreateTokenProvider: the error of the first
\* guard that fails, or None; allowed is what limiter.Allow() answered
GuardError(args, allowed) ==
    LET detects == args.scope = NoScope
    IN  IF isBlockedURL(args.url, args.lookup)
        THEN "requests to cloud metadata endpoints are blocked"
        ELSE IF ~allowed
        THEN "rate limit exceeded (10 burst, 1 request/second sustained)"
        ELSE IF detects /\ DetectScope(args.url).err # None
        THEN "failed to detect scope"
        ELSE IF ~detects /\ validateScopeURLMatch(args.scope, args.url) # None
        THEN "scope/URL mismatch"
        ELSE None

(***************************************************************************)
(* State of one Execute call.                                              *)
(***************************************************************************)
VARIABLES
    opts,           \* RequestOptions: Retry, MaxResponseSize, Body, URLText
    ctx,            \* "live", or the error of the done context
    ctxDoneAt,      \* where Execute was when the context became done
    pc,             \* "start", "inflight", "backoff", "read", "page", "done"
    attempt,        \* loop variable of the retry loop
    origReader,     \* the caller's opts.Body: kind, length, read position
    bufReader,      \* bytes.NewReader(bodyBytes), when the body was buffered
    bodyReader,     \* which reader the local bodyReader names
    req,            \* the *http.Request: which reader is its Body, ContentLength
    requests,       \* number of client.Do calls made so far
    sent,           \* byte range of the body carried by the latest request
    n5xx,           \* number of attempts answered with a status in [500,600)
    nRetryErr,      \* number of attempts that ended in a retryable error
    resp,           \* status of the response client.Do returned last
    lastErr,        \* error client.Do returned last
    serverBodyLen,  \* length of the body the server sends with the final response
    result          \* what Execute returned

\* Redirect handling inside one client.Do call.
VARIABLES
    hops,           \* redirects followed by the current client.Do (len(via) - 1)
    targetRequests, \* requests sent to redirect targets, over the whole call
    redirectsSeen,  \* redirect responses the current client.Do has received
    stoppedAfter    \* the N of a "stopped after N redirects" error, else 0

redirVars == <<hops, targetRequests, redirectsSeen, stoppedAfter>>

\* Authentication of the requests.
VARIABLES
    tokenProvider,  \* c.tokenProvider, the provider given to NewClient
    authHeader,     \* Authorization header of the first request
    getTokenCalls   \* number of GetToken calls made so far

authVars == <<tokenProvider, authHeader, getTokenCalls>>

\* handlePagination and the server it talks to.
VARIABLES
    server,         \* which server answers: what it serves at each page URL
    firstPage,      \* the body and Link header the server sent first
    served,         \* the page the server sent last in answer to a page request
    servedValues,   \* the items of the pages served that were read and decoded
    allResults,     \* allResults
    nextURL,        \* nextURL
    pageCount,      \* pageCount
    pageReq,        \* the page request made last
    pageRequests,   \* number of page requests handed to client.Do
    pageFailure,    \* why the page loop was left through a break, if it was
    resultBody      \* content of Response.Body, when pagination produced it

pageVars == <<server, firstPage, served, servedValues, allResults, nextURL, pageCount,
              pageReq, pageRequests, pageFailure, resultBody>>

\* An AzureTokenProvider and the GetToken calls made on it.
VARIABLES
    cache,          \* p.cache: scope -> azcore.AccessToken
    now,            \* p.now(), in minutes
    chainCalls,     \* number of p.credential.GetToken calls made so far
    calls,          \* for each caller, where its GetToken call is
    prevCall,       \* the GetToken call that returned before lastCall
    lastCall,       \* the GetToken call that returned last
    mu              \* p.mu

tokVars == <<cache, now, chainCalls, calls, prevCall, lastCall, mu>>

\* The azd rest command around Execute: executeRequest.
VARIABLES
    flags,          \* the global flags and the URL buildRequestOptions reads
    respHeaders,    \* Response.Headers: the headers of the final response
    formatter,      \* the Formatter: verbose, format
    formatted,      \* what Formatter.Format returned
    detected,       \* what DetectScope returned, once it was called
    stderr          \* the lines Execute has written to os.Stderr

cmdVars == <<flags, respHeaders, formatter, formatted, detected>>

\* The waits of the retry loop.
VARIABLES
    backoffs        \* how long each backoff of the retry loop lasted, in order

waitVars == <<backoffs>>

\* The MCP server (internal/cmd/mcp.go): its package variables and the
\* tool calls it is handling.
VARIABLES
    limiter,               \* tokens left in the bucket of limiter
    cachedTokenProvider,   \* cachedTokenProvider: nil, or the provider made
    tokenProviderMu,       \* tokenProviderMu
    constructed,           \* providers NewAzureTokenProvider has returned
    tools                  \* for each tool call, where it is and what it did

mcpVars == <<limiter, cachedTokenProvider, tokenProviderMu, constructed, tools>>

\* Everything outside the retry loop proper.
extVars == <<redirVars, authVars, pageVars, tokVars, cmdVars, stderr, waitVars,
             mcpVars>>

loopVars == <<opts, ctx, ctxDoneAt, pc, attempt, origReader, bufReader,
              bodyReader, req, requests, sent, n5xx, nRetryErr, resp, lastErr,
              serverBodyLen, result>>

vars == <<loopVars, extVars>>

NoSent == [from |-> -1, n |-> -1]
NoResult == [kind |-> None, status |-> 0, bodyLen |-> 0,
             msg |-> None, retries |-> 0, cause |-> NoErr]
ResponseResult(status, bodyLen) ==
    [kind |-> "response", status |-> status, bodyLen |-> bodyLen,
     msg |-> None, retries |-> 0, cause |-> NoErr]
ErrorResult(msg, retries, cause) ==
    [kind |-> "error", status |-> 0, bodyLen |-> 0,
     msg |-> msg, retries |-> retries, cause |-> cause]

(***************************************************************************)
(* Pure parts of Execute.                                                  *)
(***************************************************************************)
\* maxRetries := opts.Retry; if < 0 then 0; if == 0 then 3
EffectiveMaxRetries(retry) ==
    LET clamped == IF retry < 0 THEN 0 ELSE retry
    IN  IF clamped = 0 THEN DefaultRetries ELSE clamped

maxRetries == EffectiveMaxRetries(opts.Retry)

\* A time.Duration, an int64 count of nanoseconds, written m * 2^e with m
\* below 2^30: the product below is computed on the two parts and then
\* brought back to 64 bits.
Duration(m, e) == [m |-> m, e |-> e]
Zero == Duration(0, 0)
\* time.Second: 10^9 = 1953125 * 2^9
Second == Duration(1953125, 9)

\* The 64 bits of m * 2^e: the low 64 - e bits of m, shifted by e
Int64(d) ==
    IF d.e >= 64 \/ d.m = 0 THEN Zero
    ELSE IF 64 - d.e >= 30 THEN d
    ELSE LET low == d.m % (2 ^ (64 - d.e))
         IN  IF low = 0 THEN Zero ELSE Duration(low, d.e)

\* bit 63 of the 64 bits is set
Negative(d) ==
    /\ d.m # 0
    /\ 63 - d.e < 30
    /\ (d.m \div (2 ^ (63 - d.e))) % 2 = 1

\* backoff := time.Duration(1<<uint(attempt-1)) * time.Second
Backoff(n) == Int64(Duration(Second.m, n - 1 + Second.e))

\* How long <-time.After(d) lasts: d, or no time when d is not positive
Waited(d) == IF d = Zero \/ Negative(d) THEN Zero ELSE d

\* resp.StatusCode >= 500 && resp.StatusCode < 600
IsServerErrorFrom400(status) == status >= 400 /\ status < 600
IsServerErrorOnly500(status) == status = 500

IsServerError(status) == status >= 500 /\ status < 600

\* ... && attempt < maxRetries
MayRetryOneLess(att, max) == att + 1 < max

MayRetry(att, max) == att < max

\* attempt == maxRetries
Exhausted(att, max) == att = max

\* maxSize := opts.MaxResponseSize; if <= 0 then 100MB
EffectiveMaxSize(maxResponseSize) ==
    IF maxResponseSize <= 0 THEN DefaultMaxResponseSize ELSE maxResponseSize

\* io.ReadAll(io.LimitReader(resp.Body, maxSize)): the number of bytes read
LimitedRead(n, maxSize) == Min(n, maxSize)

\* int64(len(responseBody)) >= maxSize
HitSizeLimitStrict(len, maxSize) == len > maxSize

HitSizeLimit(len, maxSize) == len >= maxSize

\* http.NewRequestWithContext: ContentLength is set from the reader's length
\* for *bytes.Buffer, *bytes.Reader and *strings.Reader and left 0 otherwise;
\* a known length of 0 makes the Body http.NoBody.
NewRequest(body) ==
    [body |-> IF body = NoReader \/ (body.kind \in KnownLenKinds /\ body.len = 0)
              THEN None ELSE "orig",
     contentLength |-> IF body.kind \in KnownLenKinds THEN body.len ELSE 0]

\* The reader a name stands for.
ReaderOf(name, orig, buf) ==
    CASE name = "orig" -> orig
      [] name = "buf"  -> buf
      [] OTHER         -> NoReader

\* The bytes a request carries when client.Do is called: what is left of
\* its Body reader.
Carried(reader) ==
    IF reader = NoReader THEN [from |-> 0, n |-> 0]
    ELSE [from |-> reader.pos, n |-> reader.len - reader.pos]

\* The transport cannot complete a request whose Body yields fewer bytes
\* than its ContentLength ("http: ContentLength=N with Body length M").
ShortBody(request, reader) ==
    /\ request.body # None
    /\ request.contentLength > 0
    /\ reader.len - reader.pos < request.contentLength

AtEnd(reader) == IF reader = NoReader THEN reader ELSE [reader EXCEPT !.pos = reader.len]
AtStart(reader) == IF reader = NoReader THEN reader ELSE [reader EXCEPT !.pos = 0]


(***************************************************************************)
(* Initial state: a call of Execute about to run with options o.           *)
(***************************************************************************)
\* Execute has not begun.
NotStarted ==
    /\ pc = "start"
    /\ resp = 0
    /\ serverBodyLen = 0
    /\ result = NoResult
    /\ resultBody = NoBody

InitRequest(optionSet, providers, servers) ==
    /\ opts \in optionSet
    /\ tokenProvider \in providers
    /\ server \in servers
    /\ ctx = "live"
    /\ ctxDoneAt = [pc |-> None, request |-> 0]
    /\ stderr = {}
    /\ attempt = 0
    /\ backoffs = <<>>
    /\ origReader = opts.Body
    /\ bufReader = NoReader
    /\ bodyReader = None
    /\ req = [body |-> None, contentLength |-> 0]
    /\ requests = 0
    /\ sent = NoSent
    /\ n5xx = 0
    /\ nRetryErr = 0
    /\ lastErr = NoErr
    /\ hops = 0
    /\ targetRequests = 0
    /\ redirectsSeen = 0
    /\ stoppedAfter = 0
    /\ authHeader = NoAuth
    /\ getTokenCalls = 0
    /\ firstPage = NoPage
    /\ served = NoPage
    /\ servedValues = <<>>
    /\ allResults = <<>>
    /\ nextURL = ""
    /\ pageCount = 0
    /\ pageReq = NoPageRequest
    /\ pageRequests = 0
    /\ pageFailure = None

\* Execute called by itself: no command line, and nothing formats the
\* response.
InitExecute(optionSet, providers, servers) ==
    /\ InitRequest(optionSet, providers, servers)
    /\ NotStarted
    /\ flags = NoFlags
    /\ respHeaders = {}
    /\ formatter = NoFormatter
    /\ formatted = NoOutput

\* A new AzureTokenProvider: an empty cache, no call made.
InitProvider(callers) ==
    /\ cache = [s \in Scopes |-> NoToken]
    /\ now = 1
    /\ chainCalls = 0
    /\ calls = [c \in callers |-> Idle]
    /\ prevCall = NoCall
    /\ lastCall = NoCall
    /\ mu = Unlocked

\* DetectScope has not been called.
NoDetection == [scope |-> None, err |-> None]

\* The MCP server as its package is initialised: a full bucket, no
\* provider cached, and the tool calls not yet received.
InitServer(callers) ==
    /\ limiter = limiterBurst
    /\ cachedTokenProvider = 0
    /\ tokenProviderMu = None
    /\ constructed = 0
    /\ tools = [c \in callers |-> NoTool]

\* An Execute call; no GetToken call is made on an AzureTokenProvider.
InitWith(optionSet, providers, servers) ==
    /\ InitExecute(optionSet, providers, servers)
    /\ InitProvider({})
    /\ detected = NoDetection
    /\ InitServer({})

\* The options the retry loop and the redirects do not look at: a single
\* unauthenticated, unpaginated GET.
PlainOptions ==
    [Paginate : {FALSE}, Method : {"GET"}, Headers : {{}}, SkipAuth : {TRUE},
     Scope : {""}, TokenProvider : {None}, Verbose : {FALSE},
     URL : {RequestURL}]

\* The records of optionSet extended by those of moreOptions.
WithOptions(optionSet, moreOptions) ==
    {[k \in (DOMAIN o) \cup (DOMAIN m) |->
         IF k \in DOMAIN o THEN o[k] ELSE m[k]] : o \in optionSet, m \in moreOptions}

\* The retry loop and the body read, for every combination of the options
\* that matter to them; redirects are not followed.
RetryOptions ==
    WithOptions([Retry : RetryOpts, MaxResponseSize : MaxResponseSizeOpts,
                 Body : Bodies, URLText : URLPatternOpts,
                 FollowRedirects : {FALSE}, MaxRedirects : {0}],
                PlainOptions)

Init == InitWith(RetryOptions, {None}, {"chain"})

(***************************************************************************)
(* The context is cancelled or its deadline passes, at any point.          *)
(***************************************************************************)
Cancel ==
    /\ ctx = "live"
    /\ pc # "done"
    /\ \E kind \in CtxErrKinds : ctx' = kind
    /\ ctxDoneAt' = [pc |-> pc, request |-> requests]
    /\ UNCHANGED <<opts, pc, attempt, origReader, bufReader, bodyReader, req,
                   requests, sent, n5xx, nRetryErr, resp, lastErr,
                   serverBodyLen, result>>
    /\ UNCHANGED extVars

(***************************************************************************)
(* Execute up to the first client.Do: the request is created from          *)
(* opts.Body, then the body is read into memory when retries were          *)
(* requested (opts.Retry > 0), and attempt 0 issues the request.           *)
(***************************************************************************)
IssueFirstRequest ==
    /\ LET body     == opts.Body
           newReq   == NewRequest(body)
           buffers  == body # NoReader /\ maxRetries > 0 /\ opts.Retry > 0
           \* io.ReadAll(io.LimitReader(opts.Body, maxBodySizeForRetry+1))
           nRead    == Min(body.len, maxBodySizeForRetry + 1)
           consumed == [body EXCEPT !.pos = nRead]
           fits     == nRead <= maxBodySizeForRetry
           orig1    == IF ~buffers THEN body
                       ELSE IF fits THEN consumed
                       ELSE IF body.kind \in SeekerKinds THEN AtStart(consumed)
                       ELSE consumed
           buf1     == IF buffers /\ fits
                       THEN [kind |-> "bytes", len |-> nRead, pos |-> 0]
                       ELSE NoReader
           name1    == IF body = NoReader THEN None
                       ELSE IF buffers /\ fits THEN "buf" ELSE "orig"
       IN  /\ req' = newReq
           /\ origReader' = orig1
           /\ bufReader' = buf1
           /\ bodyReader' = name1
           /\ sent' = Carried(ReaderOf(newReq.body, orig1, buf1))
    /\ requests' = requests + 1
    /\ pc' = "inflight"
    /\ UNCHANGED <<opts, ctx, ctxDoneAt, attempt, n5xx, nRetryErr, resp,
                   lastErr, serverBodyLen, result>>

\* The lines Execute writes to os.Stderr.  A header line shows the value
\* RedactSensitiveHeader returns; raw is the value it was given.
RequestLine ==
    [kind |-> "request", key |-> <<>>, value |-> <<>>, raw |-> <<>>, url |-> ""]
HeaderLine(h) ==
    [kind |-> "header", key |-> h.key,
     value |-> RedactSensitiveHeader(h.key, h.value), raw |-> h.value, url |-> ""]
FollowingLine(url) ==
    [kind |-> "following", key |-> <<>>, value |-> <<>>, raw |-> <<>>, url |-> url]

\* The strings a token provider returns, where Execute logs them.
TokenTexts ==
    {<<"t", "o", "k", "e", "n">>,
     <<"a", "b", "c", "d", "e", "f", "X", "g", "h", "i", "j", "k", "l">>}

\* req.Header once the caller's headers, the bearer token (when one was
\* asked for) and the default User-Agent have been set.
RequestHeaders(headers, needs, token) ==
    LET set     == {Header(CanonicalMIMEHeaderKey(h.key), h.value) : h \in headers}
        authed  == IF needs
                   THEN {h \in set : h.key # AuthorizationKey}
                          \cup {Header(AuthorizationKey, BearerPrefix \o token)}
                   ELSE set
    IN  IF Get(authed, UserAgentKey) = <<>>
        THEN {h \in authed : h.key # UserAgentKey}
               \cup {Header(UserAgentKey, userAgent)}
        ELSE authed

\* The request log of verbose mode.
RequestLog(headers, needs, token) ==
    {RequestLine} \cup {HeaderLine(h) : h \in RequestHeaders(headers, needs, token)}

\* GetToken fails for the first request.
TokenFailsButRequestGoes ==
    /\ authHeader' = NoAuth
    /\ IssueFirstRequest

TokenFails ==
    /\ result' = ErrorResult("failed to get authentication token",
                             0, [kind |-> "token", text |-> {}])
    /\ pc' = "done"
    /\ UNCHANGED <<opts, ctx, ctxDoneAt, attempt, origReader,
                   bufReader, bodyReader, req, requests, sent,
                   n5xx, nRetryErr, resp, lastErr,
                   serverBodyLen, authHeader>>

\* The token for the first request is asked of c.tokenProvider before the
\* loop; when GetToken fails Execute returns without issuing anything.  In
\* verbose mode the request is logged before it is issued.
ExecuteStart ==
    /\ pc = "start"
    /\ LET needs == NeedsToken(opts.SkipAuth, opts.Scope, tokenProvider)
       IN  /\ getTokenCalls' = IF needs THEN getTokenCalls + 1 ELSE getTokenCalls
           /\ \E tokenOk \in IF needs THEN BOOLEAN ELSE {TRUE},
                 token \in IF needs /\ opts.Verbose THEN TokenTexts ELSE {<<>>} :
                IF tokenOk
                THEN /\ authHeader' =
                          IF needs
                          THEN Bearer(tokenProvider, opts.Scope, getTokenCalls + 1)
                          ELSE NoAuth
                     /\ IssueFirstRequest
                     /\ stderr' = IF opts.Verbose
                                  THEN stderr \cup RequestLog(opts.Headers, needs, token)
                                  ELSE stderr
                ELSE /\ TokenFails
                     /\ UNCHANGED stderr
    /\ UNCHANGED <<redirVars, tokenProvider, pageVars, tokVars, cmdVars, waitVars, mcpVars>>

\* The readers after client.Do has read the request's Body to its end.
BodyConsumed(which) ==
    /\ origReader' = IF which = "orig" THEN AtEnd(origReader) ELSE origReader
    /\ bufReader' = IF which = "buf" THEN AtEnd(bufReader) ELSE bufReader

\* A response or a network failure can come back only for a request that
\* was issued under a live context (the context may become done while the
\* request is in flight, and then either may still win the race).
IssuedLive == ctx = "live" \/ (ctxDoneAt.pc = "inflight" /\ ctxDoneAt.request = requests)

\* What the retry loop does with a response from client.Do.
HandleResponse(status) ==
    /\ resp' = status
    /\ lastErr' = NoErr
    /\ n5xx' = IF status >= 500 /\ status < 600 THEN n5xx + 1 ELSE n5xx
    /\ IF IsServerError(status) /\ MayRetry(attempt, maxRetries)
       THEN /\ attempt' = attempt + 1      \* resp.Body.Close(); continue
            /\ pc' = "backoff"
       ELSE /\ attempt' = attempt          \* break
            /\ pc' = "read"

(***************************************************************************)
(* client.Do returns a response.                                           *)
(***************************************************************************)
DoReturnsResponse ==
    /\ pc = "inflight"
    /\ IssuedLive
    /\ ~ShortBody(req, ReaderOf(req.body, origReader, bufReader))
    /\ \E status \in Statuses : HandleResponse(status)
    /\ BodyConsumed(req.body)
    /\ UNCHANGED <<opts, ctx, ctxDoneAt, bodyReader, req, requests, sent,
                   nRetryErr, serverBodyLen, result>>
    /\ UNCHANGED extVars

\* What the retry loop does with an error from client.Do.
HandleError(err) ==
    /\ resp' = 0
    /\ lastErr' = err
    /\ IF ~isRetryableError(err)
       THEN /\ result' = ErrorResult("request failed", 0, err)
            /\ pc' = "done"
            /\ UNCHANGED <<attempt, nRetryErr>>
       ELSE /\ nRetryErr' = nRetryErr + 1
            /\ IF Exhausted(attempt, maxRetries)
               THEN /\ result' = ErrorResult("request failed after retries",
                                             maxRetries, err)
                    /\ pc' = "done"
                    /\ UNCHANGED attempt
               ELSE /\ attempt' = attempt + 1
                    /\ pc' = "backoff"
                    /\ UNCHANGED result

(***************************************************************************)
(* client.Do fails with a network error.  A failure to connect leaves the  *)
(* Body unread; a failure in mid-transfer may have read it.                *)
(***************************************************************************)
DoReturnsTransportError ==
    /\ pc = "inflight"
    /\ IssuedLive
    /\ \E kind \in TransportErrKinds, bodyRead \in BOOLEAN :
         /\ bodyRead => kind \in {"timeout", "reset"}
         /\ HandleError(UrlError(kind, opts.URLText))
         /\ IF bodyRead THEN BodyConsumed(req.body)
                        ELSE UNCHANGED <<origReader, bufReader>>
    /\ UNCHANGED <<opts, ctx, ctxDoneAt, bodyReader, req, requests, sent,
                   n5xx, serverBodyLen>>
    /\ UNCHANGED extVars

(***************************************************************************)
(* client.Do fails because the Body ended before ContentLength bytes.      *)
(***************************************************************************)
DoReturnsBodyError ==
    /\ pc = "inflight"
    /\ IssuedLive
    /\ ShortBody(req, ReaderOf(req.body, origReader, bufReader))
    /\ HandleError(UrlError("contentlength", opts.URLText))
    /\ BodyConsumed(req.body)
    /\ UNCHANGED <<opts, ctx, ctxDoneAt, bodyReader, req, requests, sent,
                   n5xx, serverBodyLen>>
    /\ UNCHANGED extVars

(***************************************************************************)
(* client.Do fails with the error of the done context.                     *)
(***************************************************************************)
DoReturnsCtxError ==
    /\ pc = "inflight"
    /\ ctx # "live"
    /\ HandleError(UrlError(ctx, opts.URLText))
    /\ \E bodyRead \in BOOLEAN :
         /\ bodyRead => ctxDoneAt.pc = "inflight" /\ ctxDoneAt.request = requests
         /\ IF bodyRead THEN BodyConsumed(req.body)
                        ELSE UNCHANGED <<origReader, bufReader>>
    /\ UNCHANGED <<opts, ctx, ctxDoneAt, bodyReader, req, requests, sent,
                   n5xx, serverBodyLen>>

    /\ UNCHANGED extVars

(***************************************************************************)
(* The backoff select.  time.After(backoff) fires while the context is     *)
(* still live: the request is re-armed with the body reader (rewound when  *)
(* it is a *bytes.Reader or another seeker) and issued again.              *)
(***************************************************************************)
\* A loop that asked for a token on every attempt.
ReuseRequestWithNewToken ==
    /\ getTokenCalls' = getTokenCalls + 1
    /\ authHeader' = IF authHeader = NoAuth THEN NoAuth
                     ELSE Bearer(tokenProvider, opts.Scope, getTokenCalls + 1)
    /\ UNCHANGED tokenProvider

\* The loop issues req again as it is: its headers, set before the loop,
\* are not set again and no token is asked for.
ReuseRequest == UNCHANGED authVars

BackoffElapsedIgnoringCtx ==
    /\ pc = "backoff"
    /\ LET reader   == ReaderOf(bodyReader, origReader, bufReader)
           rewound  == IF reader.kind \in SeekerKinds THEN AtStart(reader) ELSE reader
           orig1    == IF bodyReader = "orig" THEN rewound ELSE origReader
           buf1     == IF bodyReader = "buf" THEN rewound ELSE bufReader
           req1     == IF bodyReader # None THEN [req EXCEPT !.body = bodyReader]
                       ELSE req
       IN  /\ origReader' = orig1
           /\ bufReader' = buf1
           /\ req' = req1
           /\ sent' = Carried(ReaderOf(req1.body, orig1, buf1))
    /\ backoffs' = Append(backoffs, Waited(Backoff(attempt)))
    /\ requests' = requests + 1
    /\ pc' = "inflight"
    /\ UNCHANGED <<opts, ctx, ctxDoneAt, attempt, bodyReader, n5xx, nRetryErr,
                   resp, lastErr, serverBodyLen, result>>
    /\ hops' = 0 /\ redirectsSeen' = 0      \* a new client.Do starts from no hop
    /\ ReuseRequest
    /\ UNCHANGED <<targetRequests, stoppedAfter, pageVars, tokVars,
                   cmdVars, mcpVars, stderr>>

BackoffElapsed ==
    /\ ctx = "live"
    /\ BackoffElapsedIgnoringCtx

(***************************************************************************)
(* The backoff select, case <-ctx.Done().                                  *)
(***************************************************************************)
BackoffCancelled ==
    /\ pc = "backoff"
    /\ ctx # "live"
    /\ result' = ErrorResult("request cancelled", 0, CtxError(ctx))
    /\ pc' = "done"
    /\ UNCHANGED <<opts, ctx, ctxDoneAt, attempt, origReader, bufReader,
                   bodyReader, req, requests, sent, n5xx, nRetryErr, resp,
                   lastErr, serverBodyLen>>
    /\ UNCHANGED extVars

(***************************************************************************)
(* After the loop: the body of the last response is read through           *)
(* io.LimitReader(resp.Body, maxSize) and the result is built.  The server *)
(* sends a body of n bytes; the read may fail (a broken connection, a done *)
(* context).                                                               *)
(***************************************************************************)
\* Pagination whatever the status.
PaginationAppliesAnyStatus == opts.Paginate

\* The condition under which handlePagination is called: pagination was
\* asked for and the status is 2xx.
PaginationApplies == opts.Paginate /\ resp >= 200 /\ resp < 300

ReadBody ==
    /\ pc = "read"
    /\ ~PaginationApplies
    /\ \E n \in ServerBodyLens, readFails \in BOOLEAN :
         LET maxSize == EffectiveMaxSize(opts.MaxResponseSize)
             nRead   == LimitedRead(n, maxSize)
         IN  /\ serverBodyLen' = n
             /\ result' =
                  IF readFails
                  THEN ErrorResult("failed to read response body", 0,
                                   IF ctx = "live" THEN UrlError("reset", {})
                                                   ELSE CtxError(ctx))
                  ELSE IF HitSizeLimit(nRead, maxSize)
                  THEN ErrorResult("response body exceeds maximum size", 0, NoErr)
                  ELSE ResponseResult(resp, nRead)
    /\ pc' = "done"
    /\ UNCHANGED <<opts, ctx, ctxDoneAt, attempt, origReader, bufReader,
                   bodyReader, req, requests, sent, n5xx, nRetryErr, resp,
                   lastErr>>
    /\ UNCHANGED extVars

(***************************************************************************)
(* handlePagination.                                                       *)
(***************************************************************************)
\* for hasMore && nextURL != "" && pageCount < maxPages
MorePagesOneMore(next, count) == next # "" /\ count <= maxPages

MorePages(next, count) == next # "" /\ count < maxPages

\* What Execute returns once handlePagination has returned body.
ReturnBody(body) ==
    /\ resultBody' = body
    /\ result' = ResponseResult(resp, JSONLen(body))
    /\ pc' = "done"

\* The loop is left, through a break (the reason says which) or because
\* its condition is false, with allResults = results.
LeaveLoop(results, reason, firstBody) ==
    /\ allResults' = results
    /\ pageFailure' = reason
    /\ ReturnBody(Combined(results, firstBody, firstBody))

\* The loop condition is evaluated with allResults = results and
\* nextURL = next, and one iteration runs up to its client.Do: the URL is
\* parsed, the request is built from opts.Method and opts.Headers with no
\* body, and the token is asked of opts.TokenProvider.
PageLoop(results, next, firstBody) ==
    /\ nextURL' = next
    /\ IF ~MorePages(next, pageCount)
       THEN /\ LeaveLoop(results, None, firstBody)
            /\ UNCHANGED <<pageCount, pageReq, pageRequests, getTokenCalls,
                           stderr>>
       ELSE /\ pageCount' = pageCount + 1
            /\ IF ~URLParses(next)
               THEN /\ LeaveLoop(results, "url", firstBody)
                    /\ UNCHANGED <<pageReq, pageRequests, getTokenCalls, stderr>>
               ELSE LET needs == NeedsToken(opts.SkipAuth, opts.Scope,
                                            opts.TokenProvider)
                    IN  /\ stderr' = IF opts.Verbose
                                     THEN stderr \cup {FollowingLine(next)}
                                     ELSE stderr
                        /\ getTokenCalls' =
                             IF needs THEN getTokenCalls + 1 ELSE getTokenCalls
                        /\ \E tokenOk \in IF needs THEN BOOLEAN ELSE {TRUE} :
                             IF tokenOk
                             THEN /\ pageReq' =
                                       [method |-> opts.Method,
                                        url |-> next,
                                        target |->
                                          ResolveReference(opts.URL,
                                                           Reference(next)),
                                        headers |-> opts.Headers,
                                        body |-> None,
                                        authorization |->
                                          IF needs
                                          THEN Bearer(opts.TokenProvider, opts.Scope,
                                                      getTokenCalls + 1)
                                          ELSE NoAuth]
                                  /\ pageRequests' = pageRequests + 1
                                  /\ allResults' = results
                                  /\ pc' = "page"
                                  /\ UNCHANGED <<pageFailure, result, resultBody>>
                             ELSE /\ LeaveLoop(results, "token", firstBody)
                                  /\ UNCHANGED <<pageReq, pageRequests>>

(***************************************************************************)
(* After the retry loop, with pagination: the first body is read and       *)
(* checked against the size limit as always, then handlePagination decodes *)
(* it, collects its items and its next link, and enters the page loop.     *)
(***************************************************************************)
ReadFirstPage ==
    /\ pc = "read"
    /\ PaginationApplies
    /\ \E page \in FirstPagesOf(server), readFails \in BOOLEAN :
         LET maxSize == EffectiveMaxSize(opts.MaxResponseSize)
             n       == JSONLen(page.body)
             nRead   == LimitedRead(n, maxSize)
         IN  /\ serverBodyLen' = n
             /\ firstPage' = page
             /\ IF readFails \/ HitSizeLimit(nRead, maxSize)
                THEN /\ result' =
                          IF readFails
                          THEN ErrorResult("failed to read response body", 0,
                                           UrlError("reset", {}))
                          ELSE ErrorResult("response body exceeds maximum size",
                                           0, NoErr)
                     /\ pc' = "done"
                     /\ UNCHANGED <<allResults, nextURL, pageCount, pageReq,
                                    pageRequests, pageFailure, resultBody,
                                    getTokenCalls, stderr>>
                ELSE IF page.body.kind # "object"
                THEN /\ ReturnBody(page.body)
                     /\ UNCHANGED <<allResults, nextURL, pageCount, pageReq,
                                    pageRequests, pageFailure, getTokenCalls,
                                    stderr>>
                ELSE PageLoop(FirstResults(page.body),
                              NextLinkOf(page.body, page.linkHeader), page.body)
    /\ UNCHANGED <<opts, ctx, ctxDoneAt, attempt, origReader, bufReader,
                   bodyReader, req, requests, sent, n5xx, nRetryErr, resp,
                   lastErr>>
    /\ UNCHANGED <<redirVars, tokVars, cmdVars, waitVars, mcpVars, tokenProvider, authHeader,
                   server, served, servedValues>>

(***************************************************************************)
(* client.Do returns the response to a page request: its body is read      *)
(* through io.LimitReader(resp.Body, opts.MaxResponseSize) and decoded,    *)
(* its items are appended, its next link is taken, and the loop goes on.   *)
(***************************************************************************)
PageResponse ==
    /\ pc = "page"
    /\ \E page \in PagesAt(server, pageReq.url), readFails \in BOOLEAN :
         LET body == ReadPage(page.body, opts.MaxResponseSize)
         IN  /\ served' = page
             /\ servedValues' =
                  IF ~readFails /\ body = page.body /\ body.hasValue
                  THEN servedValues \o page.body.value
                  ELSE servedValues
             /\ IF readFails \/ body.kind # "object"
                THEN /\ LeaveLoop(allResults, IF readFails THEN "read" ELSE "json",
                                  firstPage.body)
                     /\ UNCHANGED <<nextURL, pageCount, pageReq, pageRequests,
                                    getTokenCalls, stderr>>
                ELSE PageLoop(allResults \o (IF body.hasValue THEN body.value ELSE <<>>),
                              NextLinkOf(body, page.linkHeader), firstPage.body)
    /\ UNCHANGED <<opts, ctx, ctxDoneAt, attempt, origReader, bufReader,
                   bodyReader, req, requests, sent, n5xx, nRetryErr, resp,
                   lastErr, serverBodyLen>>
    /\ UNCHANGED <<redirVars, tokVars, cmdVars, waitVars, mcpVars, tokenProvider, authHeader,
                   server, firstPage>>

(***************************************************************************)
(* client.Do fails for a page request.                                     *)
(***************************************************************************)
PageRequestFails ==
    /\ pc = "page"
    /\ LeaveLoop(allResults, "transport", firstPage.body)
    /\ UNCHANGED <<opts, ctx, ctxDoneAt, attempt, origReader, bufReader,
                   bodyReader, req, requests, sent, n5xx, nRetryErr, resp,
                   lastErr, serverBodyLen>>
    /\ UNCHANGED <<redirVars, tokVars, cmdVars, waitVars, mcpVars, stderr, authVars, server,
                   firstPage, served, servedValues, nextURL, pageCount, pageReq,
                   pageRequests>>

(***************************************************************************)
(* Redirects.  client.Do follows a redirect response (one with a Location) *)
(* only after asking CheckRedirect(req, via), where via holds every        *)
(* request made so far by this client.Do, the original included.           *)
(***************************************************************************)
MaxRedirectsOpts == {0, SmallMaxRedirects}
RedirectStatuses == {302, 308}

\* maxRedirects := opts.MaxRedirects; if == 0 then 10
EffectiveMaxRedirects(maxRedirectsOpt) ==
    IF maxRedirectsOpt = 0 THEN DefaultMaxRedirects ELSE maxRedirectsOpt

\* The CheckRedirect closure: http.ErrUseLastResponse, the "stopped after"
\* error, or nil.
CheckRedirectAlwaysFollows(followRedirects, viaLen, max) ==
    IF viaLen >= max THEN "stop" ELSE "follow"

CheckRedirect(followRedirects, viaLen, max) ==
    IF ~followRedirects THEN "useLast"
    ELSE IF viaLen >= max THEN "stop"
    ELSE "follow"

(***************************************************************************)
(* The request in flight is answered with a redirect.  client.Do returns   *)
(* the redirect response itself, fails with the "stopped after N           *)
(* redirects" error, or sends a request to the target and goes on waiting. *)
(***************************************************************************)
DoRedirect ==
    /\ pc = "inflight"
    /\ IssuedLive
    /\ ~ShortBody(req, ReaderOf(req.body, origReader, bufReader))
    /\ redirectsSeen' = redirectsSeen + 1
    /\ \E status \in RedirectStatuses :
         LET max     == EffectiveMaxRedirects(opts.MaxRedirects)
             verdict == CheckRedirect(opts.FollowRedirects, hops + 1, max)
         IN  CASE verdict = "useLast" ->
                    /\ HandleResponse(status)
                    /\ UNCHANGED <<nRetryErr, result, hops, targetRequests,
                                   stoppedAfter>>
               [] verdict = "stop" ->
                    /\ HandleError(UrlError("redirects", opts.URLText))
                    /\ stoppedAfter' = max
                    /\ UNCHANGED <<n5xx, hops, targetRequests>>
               [] OTHER ->
                    /\ hops' = hops + 1
                    /\ targetRequests' = targetRequests + 1
                    /\ UNCHANGED <<resp, lastErr, n5xx, nRetryErr, attempt, pc,
                                   result, stoppedAfter>>
    /\ BodyConsumed(req.body)
    /\ UNCHANGED <<opts, ctx, ctxDoneAt, bodyReader, req, requests, sent,
                   serverBodyLen, authVars, pageVars, tokVars, cmdVars, waitVars, mcpVars, stderr>>

Next ==
    \/ Cancel
    \/ ExecuteStart
    \/ DoReturnsResponse
    \/ DoReturnsTransportError
    \/ DoReturnsBodyError
    \/ DoReturnsCtxError
    \/ BackoffElapsed
    \/ BackoffCancelled
    \/ ReadBody

Spec == Init /\ [][Next]_vars

(***************************************************************************)
(* Execute with and without redirect following, against servers that       *)
(* answer with redirects; the request has no body.                         *)
(***************************************************************************)
RedirectOptions ==
    WithOptions([Retry : {1}, MaxResponseSize : {0},
                 Body : {NoReader}, URLText : URLPatternOpts,
                 FollowRedirects : BOOLEAN, MaxRedirects : MaxRedirectsOpts],
                PlainOptions)

InitRedirect == InitWith(RedirectOptions, {None}, {"chain"})

NextRedirect ==
    \/ Cancel
    \/ ExecuteStart
    \/ DoReturnsResponse
    \/ DoReturnsTransportError
    \/ DoReturnsCtxError
    \/ DoRedirect
    \/ BackoffElapsed
    \/ BackoffCancelled
    \/ ReadBody

SpecRedirect == InitRedirect /\ [][NextRedirect]_vars

(***************************************************************************)
(* Execute with pagination against the chain server, for every             *)
(* combination of the options pagination and authentication look at.       *)
(***************************************************************************)
PagingMaxResponseSizeOpts == {0, SmallMergedSize, SmallPageSize}

PagingOptions ==
    WithOptions([Retry : {1}, MaxResponseSize : PagingMaxResponseSizeOpts,
                 Body : {NoReader}, URLText : {{}},
                 FollowRedirects : {FALSE}, MaxRedirects : {0}],
                [Paginate : BOOLEAN, Method : {"GET", "POST"},
                 Headers : {{Header(XCustomKey, <<"1">>)}}, SkipAuth : BOOLEAN,
                 Scope : {"", "S"}, TokenProvider : TokenProviders,
                 Verbose : {FALSE}, URL : {RequestURL}])

InitPaging == InitWith(PagingOptions, TokenProviders, ChainServers)

NextPaging ==
    \/ ExecuteStart
    \/ DoReturnsResponse
    \/ BackoffElapsed
    \/ ReadBody
    \/ ReadFirstPage
    \/ PageResponse
    \/ PageRequestFails

SpecPaging == InitPaging /\ [][NextPaging]_vars

(***************************************************************************)
(* The retry loop with as many retries as it takes for the backoff to      *)
(* leave the range of a time.Duration.                                     *)
(***************************************************************************)
BackoffOptions ==
    WithOptions([Retry : {LongRetry}, MaxResponseSize : {0},
                 Body : {NoReader}, URLText : {{}},
                 FollowRedirects : {FALSE}, MaxRedirects : {0}],
                PlainOptions)

InitBackoff == InitWith(BackoffOptions, {None}, {"chain"})

NextBackoff ==
    \/ ExecuteStart
    \/ DoReturnsResponse
    \/ BackoffElapsed
    \/ ReadBody

SpecBackoff == InitBackoff /\ [][NextBackoff]_vars

(***************************************************************************)
(* Pagination against the looping servers.                                 *)
(***************************************************************************)
LoopOptions ==
    WithOptions([Retry : {1}, MaxResponseSize : {SmallPageSize},
                 Body : {NoReader}, URLText : {{}},
                 FollowRedirects : {FALSE}, MaxRedirects : {0}],
                [Paginate : {TRUE}, Method : {"GET"},
                 Headers : {{}}, SkipAuth : {TRUE},
                 Scope : {""}, TokenProvider : {None}, Verbose : {FALSE},
                 URL : {RequestURL}])

InitLoop == InitWith(LoopOptions, {None}, LoopServers)

\* Every client.Do returns, with a response or an error: the http.Client
\* has a timeout, so no step of Execute waits forever.
SpecLoop == InitLoop /\ [][NextPaging]_vars /\ WF_vars(NextPaging)

(***************************************************************************)
(* GetToken calls on one AzureTokenProvider, made one after another by a   *)
(* single caller while the clock advances.                                 *)
(***************************************************************************)
\* A GetToken call returns.
Return(c, call) ==
    /\ lastCall' = call
    /\ prevCall' = lastCall
    /\ calls' = [calls EXCEPT ![c] = Idle]

\* The calls that have started and have not yet reached the credential
\* chain or returned from the cache.
BeforeChain == {d \in DOMAIN calls : calls[d].pc \in {"rlock", "rlocked"}}

\* GetToken is called: the scope is trimmed, and a blank scope is an error.
GetTokenStart(c) ==
    /\ calls[c].pc = "idle"
    /\ chainCalls + Cardinality(BeforeChain) < MaxChainCalls
    /\ \E input \in ScopeInputs :
         LET scope == TrimSpace(input)
         IN  IF scope = <<>>
             THEN Return(c, Returned(c, scope, now, 0, 0, FALSE,
                                     "scope cannot be empty"))
             ELSE /\ calls' = [calls EXCEPT ![c] =
                                 [Idle EXCEPT !.pc = "rlock", !.scope = scope]]
                  /\ UNCHANGED <<prevCall, lastCall>>
    /\ UNCHANGED <<cache, now, chainCalls, mu>>
    /\ UNCHANGED <<loopVars, redirVars, authVars, pageVars, cmdVars, waitVars, mcpVars, stderr>>

\* sync.RWMutex: Lock returns once nobody holds the lock, RLock once no
\* writer does.
CanLockDespiteReaders(m) == m.writer = None

CanLock(m) == m = Unlocked

CanRLock(m) == m.writer = None

\* getCached: p.mu.RLock()
RLock(c) ==
    /\ calls[c].pc = "rlock"
    /\ CanRLock(mu)
    /\ mu' = [mu EXCEPT !.readers = @ \cup {c}]
    /\ calls' = [calls EXCEPT ![c].pc = "rlocked"]
    /\ UNCHANGED <<cache, now, chainCalls, prevCall, lastCall>>
    /\ UNCHANGED <<loopVars, redirVars, authVars, pageVars, cmdVars, waitVars, mcpVars, stderr>>

\* getCached: the entry is read, the lock is released, and the entry is
\* returned when it is fresh; otherwise GetToken calls the credential chain.
ReadCache(c) ==
    /\ calls[c].pc = "rlocked"
    /\ mu' = [mu EXCEPT !.readers = @ \ {c}]
    /\ LET scope  == calls[c].scope
           cached == getCached(cache, scope, now)
       IN  IF cached.ok
           THEN /\ Return(c, Returned(c, scope, now, cached.token,
                                      cache[scope].expiresOn, FALSE, None))
                /\ UNCHANGED chainCalls
           ELSE /\ chainCalls' = chainCalls + 1
                /\ calls' = [calls EXCEPT ![c].pc = "chain", ![c].at = now,
                                          ![c].n = chainCalls + 1]
                /\ UNCHANGED <<prevCall, lastCall>>
    /\ UNCHANGED <<cache, now>>
    /\ UNCHANGED <<loopVars, redirVars, authVars, pageVars, cmdVars, waitVars, mcpVars, stderr>>

\* p.credential.GetToken returns a token.  setCached returns at once for
\* an empty token or a zero expiry; otherwise it goes for the lock.
CredentialReturns(c) ==
    /\ calls[c].pc = "chain"
    /\ \E empty \in BOOLEAN, lifetime \in 0 .. MaxLifetime :
         LET token == AccessToken(IF empty THEN 0 ELSE calls[c].n,
                                  IF lifetime = 0 THEN 0 ELSE now + lifetime)
         IN  IF token.token = 0 \/ token.expiresOn = 0
             THEN Return(c, Returned(c, calls[c].scope, calls[c].at, token.token,
                                     token.expiresOn, TRUE, None))
             ELSE /\ calls' = [calls EXCEPT ![c].pc = "lock", ![c].token = token]
                  /\ UNCHANGED <<prevCall, lastCall>>
    /\ UNCHANGED <<cache, now, chainCalls, mu>>
    /\ UNCHANGED <<loopVars, redirVars, authVars, pageVars, cmdVars, waitVars, mcpVars, stderr>>

\* setCached: p.mu.Lock()
Lock(c) ==
    /\ calls[c].pc = "lock"
    /\ CanLock(mu)
    /\ mu' = [mu EXCEPT !.writer = c]
    /\ calls' = [calls EXCEPT ![c].pc = "locked"]
    /\ UNCHANGED <<cache, now, chainCalls, prevCall, lastCall>>
    /\ UNCHANGED <<loopVars, redirVars, authVars, pageVars, cmdVars, waitVars, mcpVars, stderr>>

\* setCached: the entry is written, the lock is released, and GetToken
\* returns the token it acquired.
WriteCache(c) ==
    /\ calls[c].pc = "locked"
    /\ cache' = setCached(cache, calls[c].scope, calls[c].token)
    /\ mu' = [mu EXCEPT !.writer = None]
    /\ Return(c, Returned(c, calls[c].scope, calls[c].at, calls[c].token.token,
                          calls[c].token.expiresOn, TRUE, None))
    /\ UNCHANGED <<now, chainCalls>>
    /\ UNCHANGED <<loopVars, redirVars, authVars, pageVars, cmdVars, waitVars, mcpVars, stderr>>

\* p.credential.GetToken returns an error.
CredentialFails(c) ==
    /\ calls[c].pc = "chain"
    /\ \E text \in ChainErrors :
         LET err == classifyAuthError(text)
         IN  Return(c, [Returned(c, calls[c].scope, calls[c].at, 0, 0, TRUE,
                                 err.msg)
                          EXCEPT !.detail = err.detail, !.wraps = err.wraps])
    /\ UNCHANGED <<cache, now, chainCalls, mu>>
    /\ UNCHANGED <<loopVars, redirVars, authVars, pageVars, cmdVars, waitVars, mcpVars, stderr>>

\* A minute passes.
Tick ==
    /\ now < MaxTime
    /\ now' = now + 1
    /\ UNCHANGED <<cache, chainCalls, calls, prevCall, lastCall, mu>>
    /\ UNCHANGED <<loopVars, redirVars, authVars, pageVars, cmdVars, waitVars, mcpVars, stderr>>

OneCaller == {"c1"}

InitToken ==
    /\ InitExecute(WithOptions([Retry : {0}, MaxResponseSize : {0},
                                Body : {NoReader}, URLText : {{}},
                                FollowRedirects : {FALSE}, MaxRedirects : {0}],
                               PlainOptions),
                   {None}, ChainServers)
    /\ InitProvider(OneCaller)
    /\ detected = NoDetection
    /\ InitServer({})

NextToken ==
    \/ \E c \in DOMAIN calls : GetTokenStart(c)
    \/ \E c \in DOMAIN calls : RLock(c)
    \/ \E c \in DOMAIN calls : ReadCache(c)
    \/ \E c \in DOMAIN calls : CredentialReturns(c)
    \/ \E c \in DOMAIN calls : Lock(c)
    \/ \E c \in DOMAIN calls : WriteCache(c)
    \/ \E c \in DOMAIN calls : CredentialFails(c)
    \/ Tick

SpecToken == InitToken /\ [][NextToken]_vars

(***************************************************************************)
(* GetToken calls made concurrently by two callers on one                  *)
(* AzureTokenProvider.                                                     *)
(***************************************************************************)
TwoCallers == {"c1", "c2"}

InitConcurrent ==
    /\ InitExecute(WithOptions([Retry : {0}, MaxResponseSize : {0},
                                Body : {NoReader}, URLText : {{}},
                                FollowRedirects : {FALSE}, MaxRedirects : {0}],
                               PlainOptions),
                   {None}, ChainServers)
    /\ InitProvider(TwoCallers)
    /\ detected = NoDetection
    /\ InitServer({})

\* The clock stands still while the calls interleave.
NextConcurrent ==
    \/ \E c \in DOMAIN calls : GetTokenStart(c)
    \/ \E c \in DOMAIN calls : RLock(c)
    \/ \E c \in DOMAIN calls : ReadCache(c)
    \/ \E c \in DOMAIN calls : CredentialReturns(c)
    \/ \E c \in DOMAIN calls : Lock(c)
    \/ \E c \in DOMAIN calls : WriteCache(c)
    \/ \E c \in DOMAIN calls : CredentialFails(c)

SpecConcurrent == InitConcurrent /\ [][NextConcurrent]_vars

(***************************************************************************)
(* executeRequest: the options are built from the flags, Execute runs      *)
(* with them on a client made with opts.TokenProvider, and the response    *)
(* is formatted.                                                           *)
(***************************************************************************)
httpsScheme == <<"h", "t", "t", "p", "s">>
httpScheme == <<"h", "t", "t", "p">>
HTTPScheme == <<"H", "T", "T", "P">>

CommandURLs ==
    {URL(httpsScheme, <<"management", "azure", "com">>, <<>>),
     URL(httpsScheme, <<"myvault", "vault", "azure", "net">>, <<>>),
     URL(httpsScheme, <<"example", "com">>, <<>>),
     URL(httpScheme, <<"management", "azure", "com">>, <<>>),
     URL(HTTPScheme, <<"management", "azure", "com">>, <<>>)}

\* The values of the --header flag.
CommandHeaders ==
    {<<>>,
     <<<<"X", "-", "C", "u", "s", "t", "o", "m", ":", " ", "1">>>>,
     <<<<"a", "u", "t", "h", "o", "r", "i", "z", "a", "t", "i", "o", "n", ":", " ", "B", "e", "a", "r", "e", "r", " ", "a", "b", "c", "d", "e", "f", "X", "g", "h", "i", "j", "k", "l">>>>,
     <<<<"A", "u", "t", "h", "o", "r", "i", "z", "a", "t", "i", "o", "n", ":", "B", "e", "a", "r", "e", "r", " ", "a", "b", "c", "d", "e", "f", ".", ".", ".", "g", "h", "i", "j", "k", "l">>>>}

CommandFlags ==
    [url : CommandURLs, scope : {"", "S"}, noAuth : BOOLEAN,
     headers : CommandHeaders, verbose : BOOLEAN, paginate : {TRUE},
     retry : {1}, outputFormat : {""}]

\* The headers of the final response: none, or those of a server that
\* answers in JSON and echoes an Authorization header.
CommandResponseHeaders ==
    {{},
     {Header(ContentTypeKey, jsonWithCharset),
      Header(AuthorizationKey,
             <<"B", "e", "a", "r", "e", "r", " ", "a", "b", "c", "d", "e", "f", "X", "g", "h", "i", "j", "k", "l">>)}}

InitCommand ==
    /\ flags \in {f \in CommandFlags : buildRequestOptions("GET", f).err = None}
    /\ InitRequest({buildRequestOptions("GET", flags).opts},
                   {None, AzureProvider}, {"chain"})
    /\ tokenProvider = opts.TokenProvider
    /\ NotStarted
    /\ respHeaders \in CommandResponseHeaders
    /\ formatter = NewFormatter(flags.verbose, flags.outputFormat)
    /\ formatted = NoOutput
    /\ InitProvider({})
    /\ detected = NoDetection
    /\ InitServer({})

\* The body of the client.Response Execute returned: what pagination
\* produced, or else the bytes read, which are an error text, not JSON.
ResponseBody ==
    IF resultBody # NoBody THEN resultBody ELSE RawBody(result.bodyLen)

\* Execute has returned a response, which is not binary: formatter.Format
\* renders it.
FormatResponse ==
    /\ pc = "done"
    /\ result.kind = "response"
    /\ formatter # NoFormatter
    /\ formatted = NoOutput
    /\ formatted' = Format(formatter, Response(respHeaders, ResponseBody))
    /\ UNCHANGED <<loopVars, redirVars, authVars, pageVars, tokVars, waitVars, mcpVars,
                   detected, flags,
                   respHeaders, formatter, stderr>>

NextCommand ==
    \/ ExecuteStart
    \/ DoReturnsResponse
    \/ BackoffElapsed
    \/ ReadBody
    \/ ReadFirstPage
    \/ PageResponse
    \/ PageRequestFails
    \/ FormatResponse

SpecCommand == InitCommand /\ [][NextCommand]_vars

(***************************************************************************)
(* Formatter.Format by itself, on the responses Execute can return: one    *)
(* header besides the Content-Type, of every name and value below.         *)
(***************************************************************************)
HeaderKeys ==
    {AuthorizationKey, authorizationLower, AuthorizationUpper, CookieKey,
     XCustomKey}

HeaderTokens ==
    {<<"t", "o", "k", "e", "n">>,
     <<"a", "b", "c", "d", "e", "f", "g", "h", "i", "j", "k", "l">>,
     <<"a", "b", "c", "d", "e", "f", "X", "g", "h", "i", "j", "k", "l">>,
     <<"a", "b", "c", "d", "e", "f", ".", ".", ".", "g", "h", "i", "j", "k", "l">>}

HeaderValues ==
    {prefix \o token :
       prefix \in {<<>>, BearerPrefix, bearerLower, BEARERUpper, BasicPrefix},
       token \in HeaderTokens}

FormatBodies ==
    {RawBody(SmallBodyLen), Object(FALSE, <<>>, NoLinks, FALSE),
     Object(TRUE, <<Number(5)>>, NoLinks, TRUE)}

ContentTypes == {<<>>, applicationJSON, jsonWithCharset, textPlain}

FormatterInputs ==
    {NewFormatter(verbose, format) :
       verbose \in BOOLEAN, format \in {"", "json", "raw", "xml"}}

InitFormat ==
    /\ InitRequest(WithOptions([Retry : {0}, MaxResponseSize : {0},
                                Body : {NoReader}, URLText : {{}},
                                FollowRedirects : {FALSE}, MaxRedirects : {0}],
                               PlainOptions),
                   {None}, {"chain"})
    /\ pc = "done"
    /\ resp = 200
    /\ resultBody \in FormatBodies
    /\ serverBodyLen = JSONLen(resultBody)
    /\ result = ResponseResult(resp, serverBodyLen)
    /\ flags = NoFlags
    /\ respHeaders \in
         {{Header(key, value)} \cup
            (IF contentType = <<>> THEN {}
             ELSE {Header(ContentTypeKey, contentType)}) :
            key \in HeaderKeys, value \in HeaderValues,
            contentType \in ContentTypes}
    /\ formatter \in FormatterInputs
    /\ formatted = NoOutput
    /\ InitProvider({})
    /\ detected = NoDetection
    /\ InitServer({})

NextFormat == FormatResponse

SpecFormat == InitFormat /\ [][NextFormat]_vars

(***************************************************************************)
(* DetectScope by itself, for the hosts of its tables, alone and with      *)
(* labels in front of them, and for paths, ports and queries that do and   *)
(* do not name a queue.                                                    *)
(***************************************************************************)
\* No request is made: the options of an Execute call that never starts.
IdleOptions ==
    WithOptions([Retry : {0}, MaxResponseSize : {0},
                 Body : {NoReader}, URLText : {{}},
                 FollowRedirects : {FALSE}, MaxRedirects : {0}],
                PlainOptions)

serviceBusSuffix == <<"servicebus", "windows", "net">>

TableHosts ==
    {m.host : m \in exactMatches} \cup {m.suffix : m \in suffixMatches}
      \cup {<<"visualstudio", "com">>, <<"kusto", "windows", "net">>,
            serviceBusSuffix, <<"example", "com">>}

HostPrefixes == {<<>>, <<"x">>, <<"x", "y">>}

ScopePaths ==
    {<<>>,
     <<"/", "q", "u", "e", "u", "e", "s", "/", "m", "y", "q", "u", "e", "u", "e">>,
     <<"/", "q", "u", "e", "u", "e">>,
     <<"/", "e", "v", "e", "n", "t", "h", "u", "b">>,
     <<"/", "m", "y", "q", "u", "e", "u", "e">>,
     <<"/", "%">>}

ScopePorts == {<<>>, <<"4", "4", "3">>}
ScopeQueries == {<<>>, <<"x", "=", "/", "q", "u", "e", "u", "e">>}

ScopeURLs ==
    {WithPortAndQuery(URL(httpsScheme, prefix \o host, path), port, query) :
       prefix \in HostPrefixes, host \in TableHosts, path \in ScopePaths,
       port \in ScopePorts, query \in ScopeQueries}

InitScope ==
    /\ flags \in {[NoFlags EXCEPT !.url = u] : u \in ScopeURLs}
    /\ InitRequest(IdleOptions, {None}, {"chain"})
    /\ NotStarted
    /\ respHeaders = {}
    /\ formatter = NoFormatter
    /\ formatted = NoOutput
    /\ InitProvider({})
    /\ detected = NoDetection
    /\ InitServer({})

\* DetectScope(url) returns.
DetectScopeCall ==
    /\ detected = NoDetection
    /\ detected' \in DetectScopeResults(flags.url)
    /\ UNCHANGED <<loopVars, redirVars, authVars, pageVars, tokVars, waitVars,
                   mcpVars, flags, respHeaders, formatter, formatted, stderr>>

NextScope == DetectScopeCall

SpecScope == InitScope /\ [][NextScope]_vars

(***************************************************************************)
(* The MCP server: tool calls.  A handler parses the custom headers and    *)
(* calls executeMCPRequest, which checks the URL, asks the limiter,        *)
(* settles the scope, gets the shared token provider when the request is   *)
(* to be authenticated, and runs Execute.                                  *)
(***************************************************************************)
publicIP == IPv4(20, 1, 2, 3)
azureHost == <<"management", "azure", "com">>

\* URLs of public hosts.
PublicTargets ==
    {[url |-> URL(httpsScheme, azureHost, <<>>), lookup |-> Lookup({publicIP})],
     [url |-> URL(httpsScheme, <<"example", "com">>, <<>>),
      lookup |-> Lookup({publicIP})],
     [url |-> URL(httpScheme, azureHost, <<>>), lookup |-> Lookup({publicIP})],
     [url |-> URL(httpsScheme, <<"172", "32", "0", "1">>, <<>>),
      lookup |-> LookupFails]}

\* URLs of loopback, link-local, private and cloud metadata addresses,
\* written as IP literals or as names that resolve to them.
InternalTargets ==
    {[url |-> URL(httpsScheme, l.host, <<>>), lookup |-> LookupFails] :
       l \in {m \in IPLiterals : m.host # <<"172", "32", "0", "1">>}}
      \cup
    {[url |-> URL(httpScheme, <<"metadata", "google", "internal">>, <<>>),
      lookup |-> Lookup({IPv4(169, 254, 169, 254)})],
     [url |-> URL(httpScheme, <<"100", "100", "100", "200">>, <<>>),
      lookup |-> LookupFails],
     [url |-> URL(httpsScheme, <<"intranet", "example", "com">>, <<>>),
      lookup |-> Lookup({publicIP, IPv4(10, 0, 0, 5)})],
     [url |-> URL(httpScheme, <<"localhost">>, <<>>),
      lookup |-> Lookup({IPv4(127, 0, 0, 1)})]}

\* A name that does not resolve.
UnresolvedTargets ==
    {[url |-> URL(httpsScheme, <<"nosuch", "example", "com">>, <<>>),
      lookup |-> LookupFails]}

ScopeOverrides ==
    {NoScope,
     URL(httpsScheme, azureHost, <<"/", ".", "d", "e", "f", "a", "u", "l", "t">>),
     URL(httpsScheme, <<"evil", "com">>, <<"/", ".", "d", "e", "f", "a", "u", "l", "t">>)}

ToolHeaders ==
    {{}, {Header(XCustomKey, <<"1">>)},
     {Header(AuthorizationUpper, <<"x">>)}, {Header(CookieKey, <<"x">>)}}

ToolArgs ==
    {Args(t.url, t.lookup, scope, headers) :
       t \in PublicTargets \cup InternalTargets \cup UnresolvedTargets,
       scope \in ScopeOverrides, headers \in ToolHeaders}

\* The arguments of the calls: all of them when one call is handled at a
\* time, an authenticated request to a public host when several are.
ArgsOf(callers) ==
    IF Cardinality(callers) = 1 THEN ToolArgs
    ELSE {a \in ToolArgs :
            /\ a.url = URL(httpsScheme, azureHost, <<>>)
            /\ a.scope = NoScope
            /\ a.headers = {}}

serverVars == <<loopVars, redirVars, authVars, pageVars, tokVars, cmdVars,
                waitVars, stderr>>

\* A handler is called: parseHeaders, then executeMCPRequest as far as
\* getOrCreateTokenProvider.  limiter.Allow() takes a token from the bucket
\* when there is one and answers false when there is none.
ToolCall(c) ==
    /\ tools[c].pc = "idle"
    /\ \E args \in ArgsOf(DOMAIN tools) :
         LET headerErr == parseHeaders(args.headers)
             asks      == /\ headerErr = None
                          /\ ~isBlockedURL(args.url, args.lookup)
             allowed   == limiter > 0
             err       == IF headerErr # None THEN headerErr
                          ELSE GuardError(args, allowed)
             skipAuth  == ShouldSkipAuth(args.url, args.headers, FALSE)
         IN  /\ limiter' = IF asks /\ allowed THEN limiter - 1 ELSE limiter
             /\ tools' = [tools EXCEPT ![c] =
                  [NoTool EXCEPT
                     !.pc = IF err # None THEN "returned"
                            ELSE IF skipAuth THEN "execute" ELSE "lock",
                     !.args = args,
                     !.bucket = limiter,
                     !.entered = (headerErr = None),
                     !.err = err]]
    /\ UNCHANGED <<cachedTokenProvider, tokenProviderMu, constructed>>
    /\ UNCHANGED serverVars

\* tokenProviderMu.Lock()
ProviderLock(c) ==
    /\ tools[c].pc = "lock"
    /\ tokenProviderMu = None
    /\ tokenProviderMu' = c
    /\ tools' = [tools EXCEPT ![c].pc = "locked"]
    /\ UNCHANGED <<limiter, cachedTokenProvider, constructed>>
    /\ UNCHANGED serverVars

\* cachedTokenProvider != nil: it is returned, and the deferred Unlock runs
ProviderCached(c) ==
    /\ tools[c].pc = "locked"
    /\ cachedTokenProvider # 0
    /\ tools' = [tools EXCEPT ![c].pc = "execute",
                              ![c].provider = cachedTokenProvider]
    /\ tokenProviderMu' = None
    /\ UNCHANGED <<limiter, cachedTokenProvider, constructed>>
    /\ UNCHANGED serverVars

\* The provider is handed out without being stored in cachedTokenProvider.
NewProviderReturnsUncached(c) ==
    /\ tools[c].pc = "locked"
    /\ cachedTokenProvider = 0
    /\ constructed' = constructed + 1
    /\ tools' = [tools EXCEPT ![c].pc = "execute",
                              ![c].provider = constructed + 1,
                              ![c].tried = TRUE]
    /\ tokenProviderMu' = None
    /\ UNCHANGED <<limiter, cachedTokenProvider>>
    /\ UNCHANGED serverVars

\* auth.NewAzureTokenProvider() returns a provider, the n-th it has made;
\* it is stored in cachedTokenProvider before the lock is released
NewProviderReturns(c) ==
    /\ tools[c].pc = "locked"
    /\ cachedTokenProvider = 0
    /\ constructed' = constructed + 1
    /\ cachedTokenProvider' = constructed + 1
    /\ tools' = [tools EXCEPT ![c].pc = "execute",
                              ![c].provider = constructed + 1,
                              ![c].tried = TRUE]
    /\ tokenProviderMu' = None
    /\ UNCHANGED limiter
    /\ UNCHANGED serverVars

\* auth.NewAzureTokenProvider() fails: the error is returned
NewProviderFails(c) ==
    /\ tools[c].pc = "locked"
    /\ cachedTokenProvider = 0
    /\ tools' = [tools EXCEPT ![c].pc = "returned",
                              ![c].tried = TRUE,
                              ![c].err = "failed to create token provider"]
    /\ tokenProviderMu' = None
    /\ UNCHANGED <<limiter, cachedTokenProvider, constructed>>
    /\ UNCHANGED serverVars

\* client.NewClient(opts.TokenProvider, ...).Execute(ctx, opts): the token
\* is asked of the provider when the request is to be authenticated, then
\* the request is issued.
MCPExecute(c) ==
    /\ tools[c].pc = "execute"
    /\ LET args     == tools[c].args
           skipAuth == ShouldSkipAuth(args.url, args.headers, FALSE)
           scope    == IF args.scope # NoScope THEN "S"
                       ELSE DetectScope(args.url).scope
           needs    == NeedsToken(skipAuth, scope,
                                  IF tools[c].provider = 0 THEN None
                                  ELSE AzureProvider)
       IN  \E tokenOk \in IF needs THEN BOOLEAN ELSE {TRUE}, ok \in BOOLEAN :
              tools' = [tools EXCEPT
                          ![c].pc = "returned",
                          ![c].tokens = IF needs THEN 1 ELSE 0,
                          ![c].requests = IF tokenOk THEN 1 ELSE 0,
                          ![c].err = IF tokenOk /\ ok THEN None
                                     ELSE "request failed"]
    /\ UNCHANGED <<limiter, cachedTokenProvider, tokenProviderMu, constructed>>
    /\ UNCHANGED serverVars

\* The handler returns its result to the MCP client.
ToolReturn(c) ==
    /\ tools[c].pc = "returned"
    /\ tools' = [tools EXCEPT ![c] = NoTool]
    /\ UNCHANGED <<limiter, cachedTokenProvider, tokenProviderMu, constructed>>
    /\ UNCHANGED serverVars

\* A second passes: the bucket gets a token back, up to its size.
LimiterRefill ==
    /\ limiter < limiterBurst
    /\ limiter' = limiter + 1
    /\ UNCHANGED <<cachedTokenProvider, tokenProviderMu, constructed, tools>>
    /\ UNCHANGED serverVars

\* One tool call at a time.
ToolCallers == {"t1"}

InitMCP ==
    /\ InitExecute(IdleOptions, {None}, {"chain"})
    /\ InitProvider({})
    /\ detected = NoDetection
    /\ InitServer(ToolCallers)

NextMCP ==
    \/ \E c \in DOMAIN tools : ToolCall(c)
    \/ \E c \in DOMAIN tools : ProviderLock(c)
    \/ \E c \in DOMAIN tools : ProviderCached(c)
    \/ \E c \in DOMAIN tools : NewProviderReturns(c)
    \/ \E c \in DOMAIN tools : NewProviderFails(c)
    \/ \E c \in DOMAIN tools : MCPExecute(c)
    \/ \E c \in DOMAIN tools : ToolReturn(c)
    \/ LimiterRefill

SpecMCP == InitMCP /\ [][NextMCP]_vars

\* Two tool calls handled at the same time.
ConcurrentToolCallers == {"t1", "t2"}

InitShared ==
    /\ InitExecute(IdleOptions, {None}, {"chain"})
    /\ InitProvider({})
    /\ detected = NoDetection
    /\ InitServer(ConcurrentToolCallers)

SpecShared == InitShared /\ [][NextMCP]_vars

TypeOK ==
    /\ pc \in {"start", "inflight", "backoff", "read", "page", "done"}
    /\ pageCount \in 0 .. maxPages
    /\ pageRequests <= pageCount
    /\ attempt \in 0 .. maxRetries
    /\ requests \in 0 .. maxRetries + 1
    /\ result.kind \in {None, "response", "error"}
    /\ (pc = "done") = (result # NoResult)


(***************************************************************************)
(* Vocabulary of the properties.                                           *)
(***************************************************************************)
Is5xx(status) == status \in 500 .. 599
GotResponse == lastErr = NoErr /\ resp # 0
Finished == pc \in {"read", "done"}

\* Errors of the stage after the retry loop, the read of the response body.
BodyStageErrors == {"failed to read response body",
                    "response body exceeds maximum size"}

\* Execute hands back the response the loop ended with, unless reading its
\* body failed.
ReturnsLastResponse ==
    pc = "done" =>
      \/ result = ResponseResult(resp, serverBodyLen)
      \/ result.kind = "error" /\ result.msg \in BodyStageErrors

\* The kinds of transport error the retry policy names as retryable.
RetryableKinds == {"timeout", "refused", "reset", "dns", "unreachable"}

\* C1: Execute retries on 5xx until success.  A 5xx answer to one of the
\* first maxRetries requests is never accepted as the result (the loop goes
\* on to the backoff); and when the first k requests (k <= maxRetries) were
\* answered 5xx and request k+1 got a status outside [500,600), Execute
\* has issued exactly k+1 requests, issues no more, and returns that
\* response with no error from the retry loop.
C1_RetryOn5xxUntilSuccess ==
    /\ (GotResponse /\ Is5xx(resp) /\ requests <= maxRetries /\ Finished)
         => (pc = "done" /\ result.msg = "request cancelled")
    /\ (GotResponse /\ ~Is5xx(resp) /\ nRetryErr = 0)
         => /\ Finished
            /\ n5xx <= maxRetries
            /\ requests = n5xx + 1
            /\ ReturnsLastResponse

C1_Witness ==
    /\ pc = "done"
    /\ n5xx = 2 /\ nRetryErr = 0 /\ requests = 3
    /\ result = ResponseResult(200, SmallMaxResponseSize - 1)

\* C2: a response whose status is outside [500,600) is never retried: once
\* it is received the loop is over, no further request is issued, and it is
\* returned as a normal Response; received on the first attempt, exactly one
\* request has been issued.
C2_NoRetryOutside5xx ==
    (GotResponse /\ ~Is5xx(resp))
      => /\ Finished
         /\ requests = n5xx + nRetryErr + 1
         /\ (n5xx + nRetryErr = 0 => requests = 1)
         /\ (pc = "done" /\ result.kind = "response" => result.status = resp)
         /\ ReturnsLastResponse

C2_Witness ==
    /\ pc = "done"
    /\ requests = 1
    /\ result.kind = "response" /\ result.status = 400

\* C3: when every attempt is answered 5xx, the loop ends only after
\* maxRetries+1 requests, and Execute then returns the last 5xx response
\* with a nil error: exhausting the retries on 5xx never yields an error of
\* the retry loop.
C3_Exhausted5xxIsAResponse ==
    /\ requests <= maxRetries + 1
    /\ (n5xx = requests /\ requests > 0 /\ Finished
          /\ result.msg # "request cancelled")
         => /\ requests = maxRetries + 1
            /\ GotResponse /\ Is5xx(resp)
            /\ ReturnsLastResponse
    /\ (n5xx = maxRetries + 1) => (Finished /\ ReturnsLastResponse)

C3_Witness ==
    /\ pc = "done"
    /\ n5xx = maxRetries + 1
    /\ requests = maxRetries + 1
    /\ result = ResponseResult(599, SmallMaxResponseSize - 1)

C5_RetryZeroDisablesRetries ==
    opts.Retry = 0 => requests <= 1

\* C6: with a body of at most 10MB and Retry > 0, every request Execute
\* issues, the first attempt and each retry alike, carries exactly the
\* caller's body bytes from the beginning.
C6_EveryRequestCarriesTheBody ==
    (/\ opts.Body # NoReader
     /\ opts.Body.len <= maxBodySizeForRetry
     /\ opts.Retry > 0
     /\ requests >= 1)
      => sent = [from |-> 0, n |-> opts.Body.len]

\* C7: when the context is done while Execute waits in a backoff sleep, the
\* next thing Execute does is return the "request cancelled" error wrapping
\* ctx.Err(); it issues no further request, whatever retries remain.
C7_CancelDuringBackoff ==
    [][(pc = "backoff" /\ ctx # "live")
         => /\ pc' = "done"
            /\ result' = ErrorResult("request cancelled", 0, CtxError(ctx))
            /\ requests' = requests]_vars

C7_Witness ==
    /\ pc = "done"
    /\ ctxDoneAt.pc = "backoff"
    /\ attempt < maxRetries
    /\ requests = 2
    /\ result.msg = "request cancelled"

\* C8: cancellation is never retried: once client.Do has returned the error
\* of the done context for a request in flight, no further request is
\* issued, and the error Execute returns wraps that context error.
C8_CancelInFlightNotRetried ==
    [][/\ (lastErr.kind \in CtxErrKinds => requests' = requests)
       /\ (lastErr'.kind \in CtxErrKinds /\ pc' = "done")
            => /\ result'.kind = "error"
               /\ result'.cause.kind = lastErr'.kind
               /\ result'.cause.kind = ctx']_vars

C8_Witness ==
    /\ pc = "done"
    /\ ctxDoneAt.pc = "inflight"
    /\ lastErr.kind = "canceled"
    /\ result.kind = "error"
    /\ result.cause.kind = "canceled"

\* C9: when the server's body is longer than the maximum (MaxResponseSize,
\* or 100MB when unset) and the read itself does not fail, Execute returns
\* the "exceeds maximum size" error and no Response; a Response never holds
\* a truncated prefix of the body.
C9_OversizedBodyIsAnError ==
    /\ (/\ pc = "done"
        /\ serverBodyLen > EffectiveMaxSize(opts.MaxResponseSize)
        /\ result.msg # "failed to read response body")
         => result = ErrorResult("response body exceeds maximum size", 0, NoErr)
    /\ result.kind = "response" => result.bodyLen = serverBodyLen

C9_Witness ==
    /\ pc = "done"
    /\ opts.MaxResponseSize = 0
    /\ serverBodyLen = DefaultMaxResponseSize + 1
    /\ result.msg = "response body exceeds maximum size"

\* C10: a body no longer than the maximum, a body of exactly the maximum
\* included, is returned complete and without error when the read itself
\* does not fail.
C10_BodyWithinLimitIsReturned ==
    (/\ pc = "done"
     /\ serverBodyLen > 0
     /\ serverBodyLen <= EffectiveMaxSize(opts.MaxResponseSize)
     /\ result.msg # "failed to read response body")
      => result = ResponseResult(resp, serverBodyLen)


\* C12: with FollowRedirects = false no request is ever sent to a redirect
\* target, no redirect error arises, and a redirect response is handed back
\* by client.Do as the response: Execute returns it (status 3xx) with a nil
\* error.
C12_RedirectNotFollowed ==
    ~opts.FollowRedirects
      => /\ targetRequests = 0 /\ hops = 0
         /\ lastErr.kind # "redirects"
         /\ (redirectsSeen > 0 /\ pc # "inflight")
              => /\ GotResponse /\ resp \in RedirectStatuses
                 /\ Finished
                 /\ ReturnsLastResponse

C12_Witness ==
    /\ pc = "done"
    /\ ~opts.FollowRedirects
    /\ redirectsSeen = 1
    /\ targetRequests = 0
    /\ result = ResponseResult(302, serverBodyLen)

\* C13: with FollowRedirects = true Execute never follows more than
\* MaxRedirects redirects, and the "stopped after N redirects" error
\* (N = MaxRedirects, 10 when unset) is terminal: Execute returns it as
\* "request failed" at once and issues no further request.
C13_RedirectLimitIsTerminal ==
    /\ hops <= EffectiveMaxRedirects(opts.MaxRedirects)
    /\ lastErr.kind = "redirects"
         => /\ stoppedAfter = EffectiveMaxRedirects(opts.MaxRedirects)
            /\ pc = "done"
            /\ result = ErrorResult("request failed", 0, lastErr)

\* C14: with FollowRedirects = true a chain of up to MaxRedirects redirects
\* is followed: the "stopped after N redirects" error arises only for a
\* redirect beyond the first MaxRedirects ones.
C14_FollowsMaxRedirectsHops ==
    (lastErr.kind = "redirects" /\ pc # "inflight")
      => redirectsSeen > EffectiveMaxRedirects(opts.MaxRedirects)


(***************************************************************************)
(* Pagination.                                                             *)
(***************************************************************************)
Paginated == opts.Paginate /\ resp >= 200 /\ resp < 300
ReturnedResponse == pc = "done" /\ result.kind = "response"

\* C11: every Response Execute returns, single or aggregated over a
\* pagination sequence, has a body no longer than the MaxResponseSize in
\* force.
C11_BodyWithinMaxResponseSize ==
    ReturnedResponse
      => result.bodyLen <= EffectiveMaxSize(opts.MaxResponseSize)

\* C15: pagination merge.  When the first page has a value array and a
\* nextLink to a second page, and the second page served has a value array
\* and no further link, the returned body's value is the first page's
\* items followed by the second page's, and it has no nextLink key,
\* whatever MaxResponseSize is.
C15_MergesTwoPages ==
    (/\ ReturnedResponse
     /\ Paginated
     /\ firstPage.body.kind = "object"
     /\ firstPage.body.hasValue
     /\ firstPage.body.links["nextLink"] \in PageURLs
     /\ pageRequests = 1
     /\ pageFailure \notin {"read"}
     /\ served.body.kind = "object"
     /\ served.body.hasValue
     /\ NextLinkOf(served.body, served.linkHeader) = "")
      => /\ resultBody.value = firstPage.body.value \o served.body.value
         /\ "nextLink" \notin Keys(resultBody)

\* C16: pagination always terminates.  Against a server whose every page
\* carries a next link, at most 1000 page requests are issued, Execute
\* returns, and when the cap stopped the loop what it returns is the body
\* aggregated over the first page and the 1000 pages fetched.
C16_PaginationTerminates ==
    /\ [](/\ pageRequests <= maxPages
          /\ (pc = "done" /\ pageRequests = maxPages /\ pageFailure = None)
               => /\ result = ResponseResult(resp, JSONLen(resultBody))
                  /\ resultBody.value
                       = FirstResults(firstPage.body) \o servedValues)
    /\ <>(pc = "done")

C16_Witness ==
    /\ pc = "done"
    /\ server \in LoopServers
    /\ pageRequests = maxPages
    /\ pageFailure = None
    /\ nextURL # ""
    /\ Len(resultBody.value) >= maxPages

\* C17: pagination failures are never fatal.  When the page loop is left
\* because a page step failed, Execute returns a response with a nil
\* error whose value array holds, in order, every item aggregated from
\* the pages fetched before the failure.
C17_PageFailureIsNotFatal ==
    (pc = "done" /\ pageFailure # None)
      => /\ result = ResponseResult(resp, JSONLen(resultBody))
         /\ resultBody.kind = "object"
         /\ resultBody.value = FirstResults(firstPage.body) \o servedValues

C17_Witness ==
    /\ pc = "done"
    /\ pageFailure = "transport"
    /\ pageRequests = 2
    /\ result.kind = "response"
    /\ resultBody.value = <<Number(2), Number(1), Number(4), Number(3)>>

\* C18: with pagination enabled and a 2xx JSON object as the first
\* response, the returned body has none of the keys nextLink,
\* @odata.nextLink, @odata.next.
C18_NoNextLinkKeys ==
    (ReturnedResponse /\ Paginated /\ firstPage.body.kind = "object")
      => Keys(resultBody) \cap LinkKeys = {}

\* C19: every page request has the method and the headers of the first
\* request and no body, and when the first request carried a bearer token
\* for a scope, the page request carries one for the same scope, from a
\* GetToken call made for that page.
C19_PageRequestLikeFirst ==
    pageRequests > 0
      => /\ pageReq.method = opts.Method
         /\ pageReq.headers = opts.Headers
         /\ pageReq.body = None
         /\ authHeader # NoAuth
              => /\ pageReq.authorization # NoAuth
                 /\ pageReq.authorization.scope = authHeader.scope
                 /\ pageReq.authorization.call > authHeader.call

(***************************************************************************)
(* Token cache.                                                            *)
(***************************************************************************)
\* Two GetToken calls made one after the other for the same scope, the
\* first of which acquired a token that expires more than
\* tokenExpirySkew after the time of the second.
SequentialWithinSkew ==
    /\ prevCall # NoCall
    /\ lastCall.scope = prevCall.scope
    /\ lastCall.at >= prevCall.at
    /\ prevCall.chain
    /\ prevCall.err = None
    /\ prevCall.token # 0
    /\ prevCall.expiresOn > lastCall.at + tokenExpirySkew

\* C20: token cache idempotence.  Two sequential GetToken calls for the
\* same scope, the first of which acquired a token expiring more than 2
\* minutes after the time of the second call, return the same token
\* string, and the credential chain is invoked once in total.
C20_CachedTokenIsReused ==
    SequentialWithinSkew
      => /\ lastCall.err = None
         /\ lastCall.token = prevCall.token
         /\ ~lastCall.chain

C20_Witness ==
    /\ SequentialWithinSkew
    /\ lastCall.at > prevCall.at
    /\ lastCall.token = prevCall.token
    /\ chainCalls = 1

\* C21: a token is returned from the cache only if now + 2 minutes < expiry
\* at the time of the call; an entry expiring at or before now + 2 minutes
\* is treated as absent, and the token the credential chain then returns
\* replaces the cache entry of that scope.
C21_CacheHitOnlyWithinSkew ==
    /\ (lastCall # NoCall /\ lastCall.err = None /\ ~lastCall.chain)
         => lastCall.at + tokenExpirySkew < lastCall.expiresOn
    /\ (lastCall.err = None /\ lastCall.chain
          /\ lastCall.token # 0 /\ lastCall.expiresOn # 0)
         => cache[lastCall.scope]
              = AccessToken(lastCall.token, lastCall.expiresOn)

C21_Witness ==
    /\ prevCall.err = None
    /\ prevCall.token # 0
    /\ prevCall.expiresOn # 0
    /\ lastCall.scope = prevCall.scope
    /\ prevCall.expiresOn = lastCall.at + tokenExpirySkew
    /\ lastCall.chain
    /\ lastCall.err = None
    /\ lastCall.token # prevCall.token
    /\ cache[lastCall.scope].token = lastCall.token

(***************************************************************************)
(* Concurrent GetToken calls.                                              *)
(***************************************************************************)
Holding(c) == calls[c].pc \in {"rlocked", "locked"}
WaitingForLock(c) ==
    \/ calls[c].pc = "rlock" /\ mu.writer # None
    \/ calls[c].pc = "lock" /\ mu # Unlocked

\* C22: the cache is safe under concurrent GetToken calls.  The lock is
\* held only around the map read and the map write, never during the
\* credential-chain call, by one writer or by readers only; a caller
\* waits only for a caller that is at the map, so never for an
\* acquisition in progress and never forever; the lock is free when no
\* call is in progress; and a caller that acquired a token returns that
\* token, its write being the cache entry when it returns.
C22_CacheSafeUnderConcurrency ==
    /\ [](/\ mu.readers = {c \in DOMAIN calls : calls[c].pc = "rlocked"}
          /\ \A c \in DOMAIN calls : (mu.writer = c) <=> (calls[c].pc = "locked")
          /\ mu.writer # None => mu.readers = {}
          /\ \A c \in DOMAIN calls :
               WaitingForLock(c) => \E d \in DOMAIN calls \ {c} : Holding(d)
          /\ (\A c \in DOMAIN calls : calls[c].pc = "idle") => mu = Unlocked)
    /\ [][\A c \in DOMAIN calls :
            (calls[c].pc \in {"chain", "locked"} /\ calls'[c].pc = "idle"
               /\ lastCall'.err = None)
              => /\ lastCall'.caller = c
                 /\ lastCall'.token \in {0, calls[c].n}
                 /\ calls[c].pc = "locked"
                      => /\ lastCall'.token = calls[c].n
                         /\ cache'[calls[c].scope] = calls[c].token]_vars

\* Two misses for the same scope raced: the acquisition started later
\* wrote first, and the one started earlier wrote last and is the entry.
C22_Witness ==
    /\ prevCall.chain /\ lastCall.chain
    /\ prevCall.err = None /\ lastCall.err = None
    /\ prevCall.scope = lastCall.scope
    /\ prevCall.caller # lastCall.caller
    /\ lastCall.token # 0
    /\ prevCall.token > lastCall.token
    /\ cache[lastCall.scope].token = lastCall.token
    /\ mu = Unlocked

(***************************************************************************)
(* Failing GetToken calls.                                                 *)
(***************************************************************************)
CallReturns == lastCall' # lastCall \/ prevCall' # prevCall

\* C23: every failing GetToken has the same outcome.  A blank scope fails
\* without a call of the credential chain; a chain error of any bucket
\* gives an "authentication failed" error wrapping the chain's error; in
\* both cases the token returned is empty and the cache is as it was.
C23_FailuresLeaveCacheAlone ==
    [][(CallReturns /\ lastCall'.err # None)
         => /\ lastCall'.token = 0
            /\ cache' = cache
            /\ IF lastCall'.scope = <<>>
               THEN /\ ~lastCall'.chain
                    /\ chainCalls' = chainCalls
                    /\ lastCall'.err = "scope cannot be empty"
               ELSE /\ lastCall'.chain
                    /\ lastCall'.err = "authentication failed"
                    /\ lastCall'.wraps \in {{text} : text \in ChainErrors}]_vars

C23_Witness ==
    /\ lastCall.err = "authentication failed"
    /\ lastCall.detail = "insufficient permissions for scope"
    /\ lastCall.wraps = {{"permission", "configure"}}
    /\ cache[lastCall.scope].token # 0
    /\ prevCall.err = "scope cannot be empty"

(***************************************************************************)
(* The command: who is authenticated.                                      *)
(***************************************************************************)
\* The caller gave an Authorization header, in whatever letter case.
CallerAuthorization ==
    \E i \in DOMAIN flags.headers :
        ToLower(TrimSpace(SplitN2(flags.headers[i])[1])) = authorizationLower

\* The URL is a plain http:// one.
PlainHTTP == ToLower(flags.url.scheme) = httpScheme

\* The scope the command resolves: the --scope override, else the scope
\* detected from the URL.
ResolvedScope ==
    IF flags.scope # "" THEN flags.scope ELSE DetectScope(flags.url).scope

SkipCondition ==
    flags.noAuth \/ CallerAuthorization \/ PlainHTTP \/ ResolvedScope = ""

\* An Authorization header is on the first request or on a page request.
SendsBearer == authHeader # NoAuth \/ pageReq.authorization # NoAuth
SendsAuthorization ==
    SendsBearer \/ \E h \in opts.Headers : ToLower(h.key) = authorizationLower

\* C24: for a request built by buildRequestOptions and run by Execute, the
\* first request carries "Authorization: Bearer <token>" with a token the
\* provider returned for the resolved scope when no skip condition holds;
\* no bearer token is attached to any request when a skip condition holds
\* (the no-auth flag, a caller Authorization header in any letter case, an
\* http:// URL, no scope resolved); and for an http:// URL without a caller
\* Authorization header no Authorization header is sent at all.
C24_BearerIffAuthActive ==
    flags # NoFlags =>
      /\ (~SkipCondition /\ requests > 0)
           => /\ authHeader = Bearer(AzureProvider, ResolvedScope, 1)
              /\ getTokenCalls >= 1
      /\ SkipCondition => ~SendsBearer /\ getTokenCalls = 0
      /\ (PlainHTTP /\ ~CallerAuthorization) => ~SendsAuthorization

\* The scope was detected from an https URL, the token was acquired and
\* the first request went out with it.
C24_Witness ==
    /\ flags # NoFlags
    /\ ~SkipCondition
    /\ flags.scope = ""
    /\ requests > 0
    /\ authHeader = Bearer(AzureProvider, "https://management.azure.com/.default", 1)

\* C25: after buildRequestOptions, SkipAuth = TRUE implies an empty Scope,
\* and SkipAuth = FALSE implies that Scope is the override when one was
\* given and otherwise the detected scope.
C25_ScopeAuthoritativeOrCleared ==
    flags # NoFlags =>
      /\ opts.SkipAuth => opts.Scope = ""
      /\ ~opts.SkipAuth => opts.Scope = ResolvedScope

\* GetToken was called for the first request and no header came of it.
FirstGetTokenFails ==
    /\ pc = "start"
    /\ getTokenCalls' = getTokenCalls + 1
    /\ authHeader' = NoAuth

\* C26: when auth is active and GetToken fails for the first request,
\* Execute returns a "failed to get authentication token" error at once: no
\* HTTP request has been or will be issued, and GetToken is not called
\* again.
C26_TokenFailureIsTerminal ==
    /\ [][FirstGetTokenFails
            => /\ pc' = "done"
               /\ result'.kind = "error"
               /\ result'.msg = "failed to get authentication token"
               /\ requests' = 0]_vars
    /\ [](result.msg = "failed to get authentication token"
            => /\ pc = "done"
               /\ requests = 0
               /\ pageRequests = 0
               /\ getTokenCalls = 1)

C26_Witness ==
    /\ NeedsToken(opts.SkipAuth, opts.Scope, tokenProvider)
    /\ result.kind = "error"
    /\ result.msg = "failed to get authentication token"
    /\ requests = 0
    /\ getTokenCalls = 1

(***************************************************************************)
(* Redaction and formatting.                                               *)
(***************************************************************************)
\* The value is "Bearer " in some letter case followed by a token.
IsBearer(value) ==
    Len(value) >= Len(BearerPrefix)
      /\ ToLower(SubSeq(value, 1, Len(BearerPrefix))) = bearerLower
BearerToken(value) == SubSeq(value, Len(BearerPrefix) + 1, Len(value))

\* First 6 + "..." + last 6 characters.
FirstAndLast6(s) == SubSeq(s, 1, 6) \o ellipsis \o SubSeq(s, Len(s) - 5, Len(s))

\* The reference redaction.
RedactReference(key, value) ==
    IF ToLower(key) = authorizationLower
    THEN IF IsBearer(value)
         THEN IF Len(BearerToken(value)) > 12
              THEN BearerPrefix \o FirstAndLast6(BearerToken(value))
              ELSE BearerPrefix \o redactedMarker
         ELSE redactedMarker
    ELSE IF ToLower(key) \in sensitiveHeaders
    THEN IF Len(value) > 12 THEN FirstAndLast6(value) ELSE redactedMarker
    ELSE value

\* C27: RedactSensitiveHeader equals the reference for every header name
\* and value: each header line of the verbose output shows, for its header,
\* the value the reference gives.
C27_RedactionEqualsReference ==
    (formatted # NoOutput /\ formatter.verbose) =>
      formatted.lines =
        {Header(h.key, RedactReference(h.key, h.value)) : h \in respHeaders}

\* The text shows the whole token, or a run of it longer than 6 characters.
Leaks(text, token) ==
    \/ Contains(text, token)
    \/ \E i \in 1 .. Len(token) - 6 : Contains(text, SubSeq(token, i, i + 6))

\* The value is an Authorization bearer value whose token is longer than
\* the threshold.
LongBearer(key, value) ==
    /\ ToLower(key) = authorizationLower
    /\ IsBearer(value)
    /\ Len(BearerToken(value)) > 12

\* C28: for every Authorization value "Bearer <token>" (any letter case)
\* whose token is longer than 12 characters, neither the verbose request
\* log of Execute nor the verbose output of Format contains the token or a
\* run of it longer than 6 characters.
C28_NoSecretInVerboseOutput ==
    /\ \A line \in stderr :
         (line.kind = "header" /\ LongBearer(line.key, line.raw))
           => ~Leaks(line.value, BearerToken(line.raw))
    /\ formatted # NoOutput =>
         \A h \in respHeaders :
           LongBearer(h.key, h.value) =>
             \A line \in formatted.lines :
               line.key = h.key => ~Leaks(line.value, BearerToken(h.value))

\* The body is to be rendered as JSON: the format is json, or it is auto
\* and the Content-Type contains application/json.
RendersAsJSON ==
    \/ formatter.format = "json"
    \/ /\ formatter.format = "auto"
       /\ Contains(Get(respHeaders, ContentTypeKey), applicationJSON)

PageStepFailed == pageFailure \in {"url", "token", "transport", "read", "json"}

\* Pretty-printing fell back to the raw bytes.
FellBackToRaw ==
    /\ formatted # NoOutput
    /\ RendersAsJSON
    /\ formatted.body.form = "raw"

\* C30: in verbose mode a warning has been written by the time the call
\* completes whenever pretty-printing fell back to the raw bytes or
\* pagination stopped because a page fetch or parse step failed.
C30_VerboseWarnsOnBestEffort ==
    (pc = "done" /\ \/ opts.Verbose /\ PageStepFailed
                    \/ formatter.verbose /\ FellBackToRaw)
      => \E line \in stderr : line.kind = "warning"

(***************************************************************************)
(* Scope detection.                                                        *)
(***************************************************************************)
\* C31: DetectScope is deterministic and first match wins: whatever order
\* the suffix table is iterated in the result is the same, and a host equal
\* to an entry of the exact table gets that entry's scope.
C31_DetectScopeDeterministic ==
    detected # NoDetection
      => /\ \A r \in DetectScopeResults(flags.url) : r = detected
         /\ \A m \in exactMatches :
              URLStringParses(flags.url) /\ flags.url.host = m.host
                => detected = [scope |-> m.scope, err |-> None]

\* A host under a suffix of the table was resolved.
C31_Witness ==
    /\ flags.url.host = <<"x", "vault", "azure", "net">>
    /\ detected = [scope |-> "https://vault.azure.net/.default", err |-> None]

\* C32: for a host ending in .servicebus.windows.net the scope is that of
\* Service Bus when the path contains /queue (or /queues) and that of
\* Event Hubs for every other path, whatever the port and the query.
C32_ServiceBusScopeByPath ==
    (/\ detected # NoDetection
     /\ URLStringParses(flags.url)
     /\ HasHostSuffix(flags.url.host, serviceBusSuffix))
      => detected =
           [scope |-> IF Contains(flags.url.path, slashQueue)
                      THEN "https://servicebus.azure.net/.default"
                      ELSE "https://eventhubs.azure.net/.default",
            err |-> None]

\* An Event Hubs URL with a port and a query that names a queue.
C32_Witness ==
    /\ flags.url.host = <<"x", "servicebus", "windows", "net">>
    /\ flags.url.path = <<"/", "e", "v", "e", "n", "t", "h", "u", "b">>
    /\ flags.url.port # <<>>
    /\ Contains(flags.url.query, slashQueue)
    /\ detected = [scope |-> "https://eventhubs.azure.net/.default", err |-> None]

(***************************************************************************)
(* Pagination and the retry loop.                                          *)
(***************************************************************************)
\* C33: a page request answered with a 5xx status is retried under the
\* retry policy of the first request before pagination gives up: when
\* retries are allowed and the last page was answered 5xx, more page
\* requests were issued than pages were counted.
C33_PageFetchIsRetried ==
    (/\ pc = "done"
     /\ Is5xx(served.status)
     /\ MayRetry(0, maxRetries))
      => pageRequests > pageCount

\* The next link the order of precedence gives for a decoded page.
PrecedenceNext(page) ==
    LET link(k) == page.body.links[k]
        set(k)  == link(k) # None /\ link(k) # ""
    IN  IF set("nextLink") THEN link("nextLink")
        ELSE IF set("@odata.nextLink") THEN link("@odata.nextLink")
        ELSE IF set("@odata.next") THEN link("@odata.next")
        ELSE IF page.linkHeader.rel = "next" THEN page.linkHeader.url
        ELSE ""

\* The URL a link stands for, seen from the URL of the request.
AgainstRequestURL(link) ==
    LET ref == Reference(link)
        dir == SubSeq(opts.URL.path, 1, LastSlash(opts.URL.path))
    IN  IF ref.scheme # <<>> THEN ref
        ELSE [scheme |-> opts.URL.scheme, host |-> opts.URL.host,
              port |-> opts.URL.port, path |-> dir \o ref.path,
              query |-> ref.query]

\* The step decodes a page: the first one, or the answer to a page request.
DecodesFirstPage ==
    /\ pc = "read"
    /\ PaginationApplies
    /\ result'.kind # "error"
    /\ firstPage'.body.kind = "object"
DecodesPage ==
    /\ pc = "page"
    /\ pageFailure' \notin {"transport", "read", "json"}

C35_NoValueArrayReturnsFirstBody ==
    (/\ ReturnedResponse
     /\ Paginated
     /\ firstPage.body.kind # "object" \/ ~firstPage.body.hasValue)
      => resultBody = firstPage.body

\* C36: the retry loop waits 2^(i-1) seconds before attempt i, for every
\* i >= 1, and does not wait before attempt 0.
C36_BackoffDoubles ==
    /\ requests >= 1 => Len(backoffs) = requests - 1
    /\ \A i \in DOMAIN backoffs :
         backoffs[i] = Duration(Second.m, Second.e + i - 1)

\* C37: unless Paginate is set and the final status is in [200,300),
\* Execute issues no page request and returns the body as it was read.
C37_PaginationOnlyWhenAsked ==
    /\ pageRequests > 0 => opts.Paginate /\ resp >= 200 /\ resp < 300
    /\ (ReturnedResponse /\ ~(opts.Paginate /\ resp >= 200 /\ resp < 300))
         => /\ pageRequests = 0
            /\ firstPage = NoPage
            /\ resultBody = NoBody
            /\ result.bodyLen
                 = LimitedRead(serverBodyLen, EffectiveMaxSize(opts.MaxResponseSize))

\* Paginate was set and the final status was 400: the body was returned.
C37_Witness ==
    /\ ReturnedResponse
    /\ opts.Paginate
    /\ resp = 400
    /\ result.bodyLen > 0
    /\ requests = 1

FirstRequestNeedsToken == NeedsToken(opts.SkipAuth, opts.Scope, tokenProvider)

\* C40: within one Execute call the token of the first request is asked
\* for once, before the first attempt, and every retry sends the same
\* Authorization header: no GetToken call is made between the attempts.
C40_TokenAcquiredOnce ==
    /\ [](pc \in {"inflight", "backoff", "read"}
           => /\ getTokenCalls = IF FirstRequestNeedsToken THEN 1 ELSE 0
              /\ authHeader = IF FirstRequestNeedsToken
                              THEN Bearer(tokenProvider, opts.Scope, 1)
                              ELSE NoAuth)
    /\ [][requests' # requests /\ requests > 0
           => /\ getTokenCalls' = getTokenCalls
              /\ authHeader' = authHeader]_vars

\* The second attempt carries the bearer token of the only GetToken call.
C40_Witness ==
    /\ pc = "inflight"
    /\ requests = 2
    /\ getTokenCalls = 1
    /\ authHeader # NoAuth

(***************************************************************************)
(* The MCP server.                                                         *)
(***************************************************************************)
\* The URL of the call is one of a loopback, link-local, private or cloud
\* metadata address; of a public host.
InternalAddress(args) ==
    \E t \in InternalTargets : t.url = args.url /\ t.lookup = args.lookup
PublicAddress(args) ==
    \E t \in PublicTargets : t.url = args.url /\ t.lookup = args.lookup

\* The call came in when the bucket of the limiter was empty.
OverLimit(t) == t.bucket = 0

\* The host of the scope override is not that of the URL, nor a parent
\* domain of it.
ScopeMismatch(args) ==
    /\ args.scope # NoScope
    /\ args.url.host # args.scope.host
    /\ ~HasHostSuffix(args.url.host, args.scope.host)

\* A custom header is named authorization, host, cookie or
\* proxy-authorization, in any letter case.
HasBlockedHeader(args) ==
    \E h \in args.headers : ToLower(h.key) \in blockedHeaders

\* The call was rejected: it went for no provider, asked for no token and
\* issued no request.
Rejected(t) ==
    /\ t.pc = "returned"
    /\ t.err # None
    /\ t.provider = 0
    /\ ~t.tried
    /\ t.tokens = 0
    /\ t.requests = 0

\* C38: the guards of a tool call come before every side effect: a call
\* to a loopback, link-local, private or metadata address, a call over the
\* rate limit (rejected at once with a rate limit error) and a call whose
\* scope override does not match the host of the URL issue no request and
\* acquire no token, and a custom header named authorization, host, cookie
\* or proxy-authorization is rejected before executeMCPRequest is called.
C38_GuardsPrecedeSideEffects ==
    \A c \in DOMAIN tools :
       LET t == tools[c]
       IN  t.pc # "idle"
             => /\ (\/ InternalAddress(t.args)
                    \/ OverLimit(t)
                    \/ ScopeMismatch(t.args)
                    \/ HasBlockedHeader(t.args))
                     => Rejected(t)
                /\ (OverLimit(t) /\ PublicAddress(t.args)
                      /\ ~HasBlockedHeader(t.args))
                     => t.err = "rate limit exceeded (10 burst, 1 request/second sustained)"
                /\ HasBlockedHeader(t.args)
                     => ~t.entered /\ t.err = "header is not allowed"

\* A call to a public host was rejected by the limiter, the bucket being
\* empty.
C38_Witness ==
    \E c \in DOMAIN tools :
       /\ tools[c].pc = "returned"
       /\ tools[c].bucket = 0
       /\ PublicAddress(tools[c].args)
       /\ tools[c].entered
       /\ tools[c].err = "rate limit exceeded (10 burst, 1 request/second sustained)"

\* C39: getOrCreateTokenProvider keeps one shared provider: under every
\* interleaving of the calls a provider is constructed at most once, every
\* call that succeeds returns that instance, a failed construction caches
\* nothing, and a call that finds nothing cached constructs again.
C39_OneSharedProvider ==
    /\ [](/\ constructed <= 1
           /\ cachedTokenProvider = constructed
           /\ \A c \in DOMAIN tools :
                /\ tools[c].pc = "execute" => tools[c].provider = 1
                /\ tools[c].provider # 0 => tools[c].provider = cachedTokenProvider)
    /\ [][\A c \in DOMAIN tools :
             (/\ tools[c].pc = "locked"
              /\ tools'[c].pc # "locked"
              /\ cachedTokenProvider = 0)
               => tools'[c].tried]_vars

\* One call failed to construct the provider and the other, after it,
\* constructed the provider that is now cached.
C39_Witness ==
    /\ tools["t1"].err = "failed to create token provider"
    /\ tools["t2"].pc = "execute"
    /\ tools["t2"].tried
    /\ tools["t2"].provider = 1
    /\ cachedTokenProvider = 1

====
